---- MODULE Spec2Model ----
(***************************************************************************)
(* Real-time voice pipeline of the Hyperfy agent: VoiceManager (speaker    *)
(* sessions, silence debounce, transcription turns, reply dispatch,        *)
(* playback busy flag), the agent activity lock, and the autonomous        *)
(* BehaviorManager loop that is gated on that lock.                        *)
(*                                                                         *)
(* Execution is a single-threaded event loop: every action below is one    *)
(* run-to-completion span of a handler, from the event that starts it (an  *)
(* audio frame, a timer, the completion of an awaited external call) to    *)
(* the next await on an external call.                                     *)
(***************************************************************************)
EXTENDS Integers, Sequences, FiniteSets, TLC

VARIABLES
    userStates,            \* VoiceManager.userStates: speaker -> session
    processingVoice,       \* VoiceManager.processingVoice
    transcriptionTimeout,  \* VoiceManager.transcriptionTimeout (last handle)
    timers,                \* pending setTimeout callbacks of the debounce
    isStarted,             \* VoiceManager.isStarted
    lockCount,             \* agentActivityLock entry counter
    turns,                 \* debounce callbacks suspended at an await
    replies,               \* emitted voice-message events not yet completed
    bmPc,                  \* BehaviorManager.executeBehavior position
    bmCb,                  \* behaviour reply callback: idle or in playAudio
    speaking,              \* player.setSpeaking state
    now,                   \* Date.now() in ms
    ev,                    \* history: the handler that ran last
    gap,                   \* history: the last accepted frame and the firings since
    used,                  \* history: frames, cleanups, ticks so far; loud frame seen; STT failed
    lk,                    \* lock harness: counter
    lkStack,               \* lock harness: open enter()/run() frames
    lkDone,                \* lock harness: the frame unwound last
    room,                  \* AgentLiveKit.room is connected (not null)
    audioSource,           \* AgentLiveKit.audioSource/localTrack exist (not null)
    published,             \* history: publishTrack calls issued and succeeded
    streams,               \* publishAudioStream calls: position and frames captured
    detected,              \* convertToPcm: the last buffer converted, its format, the outcome
    listeners,             \* the 'audio' listeners registered on world.livekit
    agentActions,          \* AgentActions: currentNode, its pending timeouts, the keys
    plays,                 \* playAudio calls awaiting their publishAudioStream call
    drained,               \* convertToAudioBuffer: the call in progress
    loop,                  \* BehaviorManager: isRunning and every runLoop invocation
    callback               \* the behaviour reply callback, call by call

vars == << userStates, processingVoice, transcriptionTimeout, timers, isStarted,
           lockCount, turns, replies, bmPc, bmCb, speaking, now, ev, gap, used >>
lockVars == << lk, lkStack, lkDone >>
ioVars == << plays, drained, loop, callback >>
kitVars == << room, audioSource, published, streams, detected, listeners, agentActions,
             ioVars >>
allVars == << vars, lockVars, room, audioSource, published, streams, detected, listeners,
             agentActions, ioVars >>

----------------------------------------------------------------------------
(* Bounds of the model *)

MaxTime == 3000
MaxDebounceTime == 3750
MaxChunks == 2
MaxTurns == 2
MaxReplies == 1
MaxLeaks == 1
MaxDepth == 3
MaxFrames == 2
MaxCleanups == 1
MaxTicks == 1
MaxStreams == 2
MaxStreamTime == 300
MaxHeaderLen == 4
MaxDeliveries == 3
MaxLoopRuns == 3
MaxLoops == 2
MaxListeners == 2
MaxCalls == 4
MaxCallbacks == 3
RandomScale == 1000
StreamTimeStep == {100}

Speakers == {"A", "B"}
TimeStep == {750}

(* Program constants *)

DEBOUNCE_TRANSCRIPTION_THRESHOLD == 1500
LOUD_THRESHOLD == 1000
BYTES_PER_SAMPLE == 2
MIN_MESSAGE_LENGTH == 3
TIME_INTERVAL_MIN == 15000
TIME_INTERVAL_MAX == 30000
TIME_INTERVAL_IDLE_MIN == 60000
TIME_INTERVAL_IDLE_MAX == 120000

----------------------------------------------------------------------------
(* Audio frames: sequences of 16-bit samples *)

\* mean absolute amplitude: none (no samples), exactly 1000, 1001, 1250
EmptyFrame == << >>
QuietFrame == << 1000, -1000 >>
LoudFrame1 == << 1001 >>
LoudFrame2 == << -2000, 500 >>
QuietFrames == { EmptyFrame, QuietFrame }
LoudFrames == { LoudFrame1, LoudFrame2 }
Frames == QuietFrames \cup LoudFrames

\* A frame of odd byte length ends with a lone byte b, written 65536 + b (no
\* 16-bit sample has that value): three bytes and one byte
LoneByte(b) == 65536 + b
OddFrame3 == << 1001, LoneByte(7) >>
OddFrame1 == << LoneByte(7) >>
MalformedFrames == { OddFrame3, OddFrame1 }
HasLoneByte(pcm) == pcm # << >> /\ pcm[Len(pcm)] >= 65536

Abs(x) == IF x < 0 THEN -x ELSE x

RECURSIVE SumAbs(_)
SumAbs(s) == IF s = << >> THEN 0 ELSE Abs(Head(s)) + SumAbs(Tail(s))

\* buffer.length
ByteLength(pcm) == BYTES_PER_SAMPLE * Len(pcm) - (IF HasLoneByte(pcm) THEN 1 ELSE 0)

\* readInt16LE(i) at the lone byte of an odd-length buffer is out of range
ReadThrows(pcm) == ByteLength(pcm) % BYTES_PER_SAMPLE # 0

isLoudEnoughInclusive(pcm) == Len(pcm) > 0 /\ SumAbs(pcm) >= LOUD_THRESHOLD * Len(pcm)
\* sum / sampleCount > threshold (0/0 is NaN, which compares false)
isLoudEnough(pcm) == Len(pcm) > 0 /\ SumAbs(pcm) > LOUD_THRESHOLD * Len(pcm)

RECURSIVE Concat(_)
Concat(bufs) == IF bufs = << >> THEN << >> ELSE Head(bufs) \o Concat(Tail(bufs))

BufferConcatLastOnly(bufs, totalLength) ==
    IF bufs = << >> THEN << >> ELSE bufs[Len(bufs)]
\* Buffer.concat(list, totalLength): the chunks in order, cut or zero-filled to totalLength bytes
BufferConcat(bufs, totalLength) ==
    LET all == Concat(bufs)
        n == totalLength \div BYTES_PER_SAMPLE
    IN  [i \in 1..n |-> IF i <= Len(all) THEN all[i] ELSE 0]

RECURSIVE SumBytes(_)
SumBytes(bufs) == IF bufs = << >> THEN 0 ELSE ByteLength(Head(bufs)) + SumBytes(Tail(bufs))

----------------------------------------------------------------------------
(* Texts: sequences of characters; the blank-audio sentinel is one token *)

BLANK_AUDIO == "[BLANK_AUDIO]"
TextEmpty == << >>
TextBlank == << BLANK_AUDIO >>
TextShort == << "h", "i" >>
TextSpaces == << " ", " ", " " >>
TextHello == << "h", "e", "y" >>
TextHelloBlank == << "h", "e", "y", BLANK_AUDIO >>
Texts == { TextEmpty, TextBlank, TextShort, TextSpaces, TextHello, TextHelloBlank }
\* three characters of which one is not a space; one space
TextPadded == << " ", "a", " " >>
TextSpace == << " " >>
PaddedTexts == { TextPadded, TextSpace }

CharWidth(c) == IF c = BLANK_AUDIO THEN 13 ELSE 1

RECURSIVE TextLength(_)
TextLength(t) == IF t = << >> THEN 0 ELSE CharWidth(Head(t)) + TextLength(Tail(t))

IsBlankText(t) == \A i \in 1..Len(t) : t[i] = " "

isValidUnlessEmpty(text) == text # << >>
isValidTranscription(text) ==
    ~(text = << >> \/ \E i \in 1..Len(text) : text[i] = BLANK_AUDIO)

IsIgnoredUpToMinimum(message) ==
    message = << >> \/ IsBlankText(message) \/ TextLength(message) <= MIN_MESSAGE_LENGTH
\* handleMessage's first test: !message || message.trim() === '' || message.length < 3
IsIgnoredMessage(message) ==
    message = << >> \/ IsBlankText(message) \/ TextLength(message) < MIN_MESSAGE_LENGTH

----------------------------------------------------------------------------
(* The activity lock (guards module) *)

LockExitNoFloor(c) == c - 1
LockNeverActive(c) == FALSE
LockEnter(c) == c + 1
LockExit(c) == IF c > 0 THEN c - 1 ELSE 0
LockIsActive(c) == c > 0

----------------------------------------------------------------------------
(* Sessions *)

NoHandle == [deadline |-> -1, player |-> ""]
NoItems == [id \in {} |-> "none"]
NoEvent ==
    [type |-> "none", player |-> "", flag |-> FALSE, text |-> << >>, loud |-> FALSE,
     items |-> NoItems]
Event(t, p, f) ==
    [type |-> t, player |-> p, flag |-> f, text |-> << >>, loud |-> FALSE, items |-> NoItems]
\* the handler that ran read the world's entities `items`
Saw(e, items) == [e EXCEPT !.items = items]
\* the handler that ran was given the audio frame f
Heard(e, f) == [e EXCEPT !.loud = f \in LoudFrames]
\* the handler that ran was resumed by the speech-to-text answer `text`
Answered(e, text) == [e EXCEPT !.text = text]

NewSession(t) ==
    [buffers |-> << >>, totalLength |-> 0, lastActive |-> t, transcriptionText |-> << >>]

ClearSession(s) ==
    [s EXCEPT !.buffers = << >>, !.totalLength = 0, !.transcriptionText = << >>]

EmptyMap == [q \in {} |-> NewSession(0)]

ClearLengthsOnly(us) ==
    [q \in DOMAIN us |-> [us[q] EXCEPT !.totalLength = 0, !.transcriptionText = << >>]]
\* this.userStates.forEach(state => { buffers.length = 0; totalLength = 0; transcriptionText = '' })
ClearAllSessions(us) == [q \in DOMAIN us |-> ClearSession(us[q])]

SessionClean(s) == s.buffers = << >> /\ s.totalLength = 0 /\ s.transcriptionText = << >>
AllClean(us) == \A q \in DOMAIN us : SessionClean(us[q])

RemoveAt(s, i) == SubSeq(s, 1, i - 1) \o SubSeq(s, i + 1, Len(s))

Playbacks ==
    (IF bmCb = "playing" THEN 1 ELSE 0)
    + Cardinality({i \in 1..Len(replies) : replies[i].pc = "playing"})

Leaked == lockCount - Len(turns) - Len(replies)

----------------------------------------------------------------------------
(* VoiceManager: inbound frames and the debounce timer *)

Deadline(t) == t + DEBOUNCE_TRANSCRIPTION_THRESHOLD

ArmWithoutCancel(ts, old, h) == ts \cup {h}
\* clearTimeout(this.transcriptionTimeout); this.transcriptionTimeout = setTimeout(...)
ArmTimer(ts, old, h) == (ts \ {old}) \cup {h}

PushWithoutStamp(s, buffer, t) ==
    [s EXCEPT !.buffers = Append(@, buffer), !.totalLength = @ + ByteLength(buffer)]
\* handleUserBuffer: push the chunk, add its length, stamp the session
PushBuffer(s, buffer, t) ==
    [s EXCEPT !.buffers = Append(@, buffer),
              !.totalLength = @ + ByteLength(buffer),
              !.lastActive = t]

DiscardNothing(s) == s
DiscardBuffersKeepLength(s) == [s EXCEPT !.buffers = << >>]
\* debouncedProcessTranscription while processingVoice: drop the speaker's audio
DiscardBuffers(s) == [s EXCEPT !.buffers = << >>, !.totalLength = 0]

\* The listener start() registers on 'audio', run once on the frame f of
\* speaker p at time t: create the session, test the loudness,
\* handleUserBuffer, debouncedProcessTranscription. st holds the fields of
\* the VoiceManager the listener reads and writes.
Listener(st, p, f, t, busy) ==
    LET us0 == IF p \in DOMAIN st.userStates
               THEN st.userStates
               ELSE st.userStates @@ (p :> NewSession(t))
        us1 == [us0 EXCEPT ![p] = PushBuffer(@, f, t)]
        h   == [deadline |-> Deadline(t), player |-> p]
    IN  IF ReadThrows(f) THEN [st EXCEPT !.userStates = us0]
        ELSE IF ~isLoudEnough(f) THEN [st EXCEPT !.userStates = us0]
        ELSE IF busy THEN [st EXCEPT !.userStates = [us1 EXCEPT ![p] = DiscardBuffers(@)]]
        ELSE [userStates |-> us1,
              timers |-> ArmTimer(st.timers, st.transcriptionTimeout, h),
              transcriptionTimeout |-> h]

\* emit('audio', ...): every registered listener is called in turn
RECURSIVE Emit(_, _, _, _, _, _)
Emit(st, n, p, f, t, busy) ==
    IF n = 0 THEN st ELSE Emit(Listener(st, p, f, t, busy), n - 1, p, f, t, busy)

\* world.livekit emits 'audio': one inbound frame of speaker p
OnAudio(p, f) ==
    /\ p \in DOMAIN userStates => Len(userStates[p].buffers) < MaxChunks
    /\ used.frames < MaxFrames
    /\ used' = [used EXCEPT !.frames = @ + 1, !.loud = @ \/ f \in LoudFrames]
    /\ LET st == Emit([userStates |-> userStates, timers |-> timers,
                       transcriptionTimeout |-> transcriptionTimeout],
                      listeners, p, f, now, processingVoice)
       IN  /\ userStates' = st.userStates
           /\ timers' = st.timers
           /\ transcriptionTimeout' = st.transcriptionTimeout
    /\ IF ReadThrows(f)
       THEN /\ ev' = Heard(Event("malformed", p, processingVoice), f)
            /\ UNCHANGED gap
       ELSE IF ~isLoudEnough(f)
       THEN /\ ev' = Heard(Event("quiet", p, processingVoice), f)
            /\ UNCHANGED gap
       ELSE /\ ev' = Heard(Event("frame", p, processingVoice), f)
            /\ gap' = [last |-> now, fires |-> 0, armed |-> ~processingVoice, cleaned |-> FALSE,
                       player |-> p]
    /\ UNCHANGED << processingVoice, isStarted, lockCount, turns, replies,
                    bmPc, bmCb, speaking, now, lockVars, kitVars >>

\* start(): register one more listener on the transport's 'audio' event,
\* unless the service, the world or its livekit is not available
VoiceStart(avail) ==
    /\ listeners < MaxListeners
    /\ listeners' = IF avail THEN listeners + 1 ELSE listeners
    /\ ev' = Event(IF avail THEN "start" ELSE "startUnavailable", "", FALSE)
    /\ UNCHANGED << userStates, processingVoice, transcriptionTimeout, timers, isStarted,
                    lockCount, turns, replies, bmPc, bmCb, speaking, now, gap, used,
                    lockVars, room, audioSource, published, streams, detected, agentActions,
                    ioVars >>

\* Wall-clock time passes; a due timer runs before time moves on
Advance(t, limit) ==
    /\ t > now
    /\ t <= limit
    /\ \A h \in timers : t <= h.deadline
    /\ now' = t
    /\ ev' = NoEvent
    /\ UNCHANGED << userStates, processingVoice, transcriptionTimeout, timers, isStarted,
                    lockCount, turns, replies, bmPc, bmCb, speaking, gap, used, lockVars, kitVars >>

clearTimeoutSkipped(ts, handle) == ts
\* clearTimeout(this.transcriptionTimeout) on the pending timers ts
clearTimeout(ts, handle) == ts \ {handle}

\* cleanup(): cancel the timer, drop every session, reset the flags
Cleanup ==
    /\ used.cleanups < MaxCleanups
    /\ used' = [used EXCEPT !.cleanups = @ + 1]
    /\ timers' = clearTimeout(timers, transcriptionTimeout)
    /\ transcriptionTimeout' = NoHandle
    /\ userStates' = EmptyMap
    /\ processingVoice' = FALSE
    /\ isStarted' = FALSE
    /\ gap' = [gap EXCEPT !.cleaned = TRUE]
    /\ ev' = NoEvent
    /\ UNCHANGED << lockCount, turns, replies, bmPc, bmCb, speaking, now, lockVars, kitVars >>

----------------------------------------------------------------------------
(* VoiceManager: the debounce callback (one voice turn) *)

Fired(g) == [g EXCEPT !.fires = IF @ < 2 THEN @ + 1 ELSE @]

EndTurnWithoutFinally(c, p, answer, outcome) ==
    /\ userStates' = ClearAllSessions(userStates)
    /\ processingVoice' = TRUE
    /\ lockCount' = LockExit(c)
    /\ ev' = Answered(Event(outcome, p, ~AllClean(userStates)), answer)
EndTurnUncaught(c, p, answer, outcome) ==
    /\ userStates' = IF outcome = "endSttError" THEN userStates ELSE ClearAllSessions(userStates)
    /\ processingVoice' = FALSE
    /\ lockCount' = LockExit(c)
    /\ ev' = Answered(Event(outcome, p, ~AllClean(userStates)), answer)
\* The end of the callback body and of agentActivityLock.run: clear all
\* sessions, reset the busy flag (finally), release the scoped acquisition.
\* c is the counter when the body returns, answer the speech-to-text result
\* that resumed the body (if any).
EndTurn(c, p, answer, outcome) ==
    /\ userStates' = ClearAllSessions(userStates)
    /\ processingVoice' = FALSE
    /\ lockCount' = LockExit(c)
    /\ ev' = Answered(Event(outcome, p, ~AllClean(userStates)), answer)

\* The setTimeout callback: run(), processingVoice = true, processTranscription
\* up to its await on the speech-to-text model.
TimerFire(h) ==
    /\ h \in timers
    /\ now >= h.deadline
    /\ Len(turns) < MaxTurns
    /\ timers' = timers \ {h}
    /\ gap' = Fired(gap)
    /\ LET p == h.player
       IN  IF p \notin DOMAIN userStates \/ userStates[p].buffers = << >>
           THEN /\ EndTurn(LockEnter(lockCount), p, << >>, "endNoAudio")
                /\ UNCHANGED turns
           ELSE /\ userStates' =
                      [userStates EXCEPT ![p] = [@ EXCEPT !.buffers = << >>, !.totalLength = 0]]
                /\ processingVoice' = TRUE
                /\ lockCount' = LockEnter(lockCount)
                /\ turns' = Append(turns,
                      [player |-> p, pc |-> "stt",
                       audio |-> BufferConcat(userStates[p].buffers, userStates[p].totalLength),
                       text |-> << >>])
                /\ ev' = Event("fire", p, LockIsActive(lockCount))
    /\ UNCHANGED << transcriptionTimeout, isStarted, replies, bmPc, bmCb, speaking, now, used, lockVars, kitVars >>

\* state.transcriptionText += transcriptionText, when the result is valid
Transcript(prev, text) == prev \o (IF isValidTranscription(text) THEN text ELSE << >>)

FinalizedKeepingText(s) == s
\* const finalText = state.transcriptionText; state.transcriptionText = ''
Finalized(s) == [s EXCEPT !.transcriptionText = << >>]

\* The speech-to-text call of turn i completes (ok) or fails: a valid result
\* is appended to the session's transcript, a non-empty transcript is taken
\* out of the session, and on a usable one handleMessage runs up to its await
\* on ensureConnection.
SttDone(i, ok, text, worldOk) ==
    /\ i \in 1..Len(turns)
    /\ turns[i].pc = "stt"
    /\ LET p == turns[i].player
           prev == IF p \in DOMAIN userStates THEN userStates[p].transcriptionText ELSE << >>
           finalText == Transcript(prev, text)
           sessions == IF p \in DOMAIN userStates /\ finalText # << >>
                       THEN [userStates EXCEPT ![p] =
                                Finalized([@ EXCEPT !.transcriptionText = finalText])]
                       ELSE userStates
       IN  IF ok /\ finalText # << >> /\ ~IsIgnoredMessage(finalText) /\ worldOk
           THEN /\ turns' = [turns EXCEPT ![i] = [@ EXCEPT !.pc = "connect", !.text = finalText]]
                /\ ev' = Answered(Event("message", p, FALSE), text)
                /\ userStates' = sessions
                /\ UNCHANGED << processingVoice, lockCount >>
           ELSE /\ turns' = RemoveAt(turns, i)
                /\ EndTurn(lockCount, p, text,
                      IF ~ok THEN "endSttError"
                      ELSE IF finalText = << >> THEN "endNoText"
                      ELSE IF IsIgnoredMessage(finalText) THEN "endIgnored"
                      ELSE "endWorldError")
    /\ used' = [used EXCEPT !.failed = @ \/ ~ok]
    /\ UNCHANGED << transcriptionTimeout, timers, isStarted, replies, bmPc, bmCb,
                    speaking, now, gap, lockVars, kitVars >>

\* ensureConnection of turn i completes (ok) or fails; on success
\* agentActivityLock.enter() and emitEvent(VOICE_MESSAGE_RECEIVED), which
\* either hands the reply to the runtime (emitOk) or throws into the catch.
ConnectDone(i, ok, emitOk) ==
    /\ i \in 1..Len(turns)
    /\ turns[i].pc = "connect"
    /\ LET p == turns[i].player
       IN  /\ turns' = RemoveAt(turns, i)
           /\ IF ~ok
              THEN /\ EndTurn(lockCount, p, << >>, "endConnectError")
                   /\ UNCHANGED replies
              ELSE /\ IF emitOk
                      THEN /\ Len(replies) < MaxReplies
                           /\ replies' = Append(replies,
                                 [player |-> p, text |-> turns[i].text, pc |-> "pending"])
                      ELSE /\ Leaked < MaxLeaks
                           /\ UNCHANGED replies
                   /\ EndTurn(LockEnter(lockCount), p, << >>,
                         IF emitOk THEN "endReply" ELSE "endEmitError")
    /\ UNCHANGED << transcriptionTimeout, timers, isStarted, bmPc, bmCb,
                    speaking, now, gap, used, lockVars, kitVars >>

----------------------------------------------------------------------------
(* VoiceManager.playAudio and the reply of a voice turn *)

PlayAudioStartsAnyway(avail) == ~processingVoice
\* playAudio goes on to publish only when not busy and the service, the world
\* and world.livekit are there
PlayAudioStarts(avail) == ~processingVoice /\ avail

\* The runtime's handler of VOICE_MESSAGE_RECEIVED invokes the callback of
\* reply i: with synthesized speech (tts) it reaches playAudio.
ReplyCallback(i, tts, avail) ==
    /\ i \in 1..Len(replies)
    /\ replies[i].pc = "pending"
    /\ IF tts /\ PlayAudioStarts(avail)
       THEN /\ replies' = [replies EXCEPT ![i] = [@ EXCEPT !.pc = "playing"]]
            /\ processingVoice' = TRUE
            /\ speaking' = TRUE
            /\ ev' = Event("playAudio", "reply", Playbacks > 0)
       ELSE /\ replies' = [replies EXCEPT ![i] = [@ EXCEPT !.pc = "called"]]
            /\ ev' = IF tts THEN Event("playAudio", "reply", Playbacks > 0) ELSE NoEvent
            /\ UNCHANGED << processingVoice, speaking >>
    /\ UNCHANGED << userStates, transcriptionTimeout, timers, isStarted, lockCount, turns,
                    bmPc, bmCb, now, gap, used, lockVars, kitVars >>

\* publishAudioStream of reply i settles (resolved or rejected): the finally block
ReplyPlaybackDone(i) ==
    /\ i \in 1..Len(replies)
    /\ replies[i].pc = "playing"
    /\ replies' = [replies EXCEPT ![i] = [@ EXCEPT !.pc = "played"]]
    /\ processingVoice' = FALSE
    /\ speaking' = FALSE
    /\ ev' = NoEvent
    /\ UNCHANGED << userStates, transcriptionTimeout, timers, isStarted, lockCount, turns,
                    bmPc, bmCb, now, gap, used, lockVars, kitVars >>

\* The handler calls onComplete: agentActivityLock.exit()
ReplyComplete(i) ==
    /\ i \in 1..Len(replies)
    /\ replies[i].pc # "playing"
    /\ replies' = RemoveAt(replies, i)
    /\ lockCount' = LockExit(lockCount)
    /\ ev' = NoEvent
    /\ UNCHANGED << userStates, processingVoice, transcriptionTimeout, timers, isStarted,
                    turns, bmPc, bmCb, speaking, now, gap, used, lockVars, kitVars >>

\* The handler ends without calling onComplete (the reply fails)
ReplyFail(i) ==
    /\ i \in 1..Len(replies)
    /\ replies[i].pc # "playing"
    /\ Leaked < MaxLeaks
    /\ replies' = RemoveAt(replies, i)
    /\ ev' = NoEvent
    /\ UNCHANGED << userStates, processingVoice, transcriptionTimeout, timers, isStarted,
                    lockCount, turns, bmPc, bmCb, speaking, now, gap, used, lockVars, kitVars >>

----------------------------------------------------------------------------
(* BehaviorManager: one iteration of runLoop *)

PastGate == {"compose", "actions", "evaluate"}

\* world.entities.items: entity id -> entity.data.type ("none": no type). The
\* agent's own entity, world.entities.player, has the id Self.
Self == "agent"
EntityIds == {Self, "p1", "app1"}
EntityTypes == {"player", "app", "none"}
Worlds == UNION {[ids -> EntityTypes] : ids \in SUBSET EntityIds}
WorldAlone == (Self :> "player")
WorldShared == (Self :> "player") @@ ("p1" :> "player")

otherPlayerCountWithSelf(items, self) ==
    Cardinality({id \in DOMAIN items : items[id] = "player"})
\* for (const [id, entity] of entities.entries())
\*   if (type === 'player' && id !== player.data.id) otherPlayerCount++
otherPlayerCount(items, self) ==
    Cardinality({id \in DOMAIN items : items[id] = "player" /\ id # self})

\* executeBehavior up to its first await: the service/world/player checks
\* (ready), the other-players check over the world's entities, then the
\* activity-lock gate. ev.flag is the value returned.
BehaviorTick(ready, items) ==
    /\ bmPc = "sleep"
    /\ used.ticks < MaxTicks
    /\ used' = [used EXCEPT !.ticks = @ + 1]
    /\ LET hasOtherPlayers == otherPlayerCount(items, Self) > 0
       IN  IF ~ready
           THEN /\ ev' = Event("unready", "behavior", FALSE)
                /\ UNCHANGED bmPc
           ELSE IF ~hasOtherPlayers
           THEN /\ ev' = Saw(Event("alone", "behavior", FALSE), items)
                /\ UNCHANGED bmPc
           ELSE IF LockIsActive(lockCount)
           THEN /\ ev' = Saw(Event("skip", "behavior", hasOtherPlayers), items)
                /\ UNCHANGED bmPc
           ELSE /\ ev' = Saw(Event("behave", "behavior", hasOtherPlayers), items)
                /\ bmPc' = "compose"
    /\ UNCHANGED << userStates, processingVoice, transcriptionTimeout, timers, isStarted,
                    lockCount, turns, replies, bmCb, speaking, now, gap, lockVars, kitVars >>

\* composeState, getHyperfyActions, useModel and ensureConnection settle;
\* on success runtime.processActions is issued
BehaviorDecided(ok) ==
    /\ bmPc = "compose"
    /\ bmPc' = IF ok THEN "actions" ELSE "sleep"
    /\ ev' = NoEvent
    /\ UNCHANGED << userStates, processingVoice, transcriptionTimeout, timers, isStarted,
                    lockCount, turns, replies, bmCb, speaking, now, gap, used, lockVars, kitVars >>

\* The behaviour callback runs (from processActions or evaluate) with a text:
\* with synthesized speech (tts) it reaches voiceManager.playAudio
BehaviorCallback(tts, avail) ==
    /\ bmPc \in {"actions", "evaluate"}
    /\ bmCb = "idle"
    /\ IF tts /\ PlayAudioStarts(avail)
       THEN /\ bmCb' = "playing"
            /\ processingVoice' = TRUE
            /\ speaking' = TRUE
            /\ ev' = Event("playAudio", "behavior", Playbacks > 0)
       ELSE /\ ev' = IF tts THEN Event("playAudio", "behavior", Playbacks > 0) ELSE NoEvent
            /\ UNCHANGED << bmCb, processingVoice, speaking >>
    /\ UNCHANGED << userStates, transcriptionTimeout, timers, isStarted, lockCount, turns,
                    replies, bmPc, now, gap, used, lockVars, kitVars >>

\* publishAudioStream of the behaviour callback settles: the finally block
BehaviorPlaybackDone ==
    /\ bmCb = "playing"
    /\ bmCb' = "idle"
    /\ processingVoice' = FALSE
    /\ speaking' = FALSE
    /\ ev' = NoEvent
    /\ UNCHANGED << userStates, transcriptionTimeout, timers, isStarted, lockCount, turns,
                    replies, bmPc, now, gap, used, lockVars, kitVars >>

\* processActions settles; on success runtime.evaluate is issued
BehaviorActionsDone(ok) ==
    /\ bmPc = "actions"
    /\ bmCb = "idle"
    /\ bmPc' = IF ok THEN "evaluate" ELSE "sleep"
    /\ ev' = NoEvent
    /\ UNCHANGED << userStates, processingVoice, transcriptionTimeout, timers, isStarted,
                    lockCount, turns, replies, bmCb, speaking, now, gap, used, lockVars, kitVars >>

\* evaluate settles; runLoop goes to sleep
BehaviorEvaluateDone ==
    /\ bmPc = "evaluate"
    /\ bmCb = "idle"
    /\ bmPc' = "sleep"
    /\ ev' = NoEvent
    /\ UNCHANGED << userStates, processingVoice, transcriptionTimeout, timers, isStarted,
                    lockCount, turns, replies, bmCb, speaking, now, gap, used, lockVars, kitVars >>

----------------------------------------------------------------------------
(* AgentLiveKit.publishAudioStream: one record per call                     *)

sampleRate == 48000
numChannels == 1
frameDurationMs == 100
samplesPerFrame == (sampleRate * frameDurationMs) \div 1000

Min(a, b) == IF a < b THEN a ELSE b
Max(a, b) == IF a > b THEN a ELSE b

\* What convertToPcm can decode to: number of 16-bit samples
SampleCounts == {0, 1, samplesPerFrame, 2 * samplesPerFrame + 1}

\* A frame handed to audioSource.captureFrame: samples lo .. hi-1 of the
\* decoded array, or `hi` zero samples
SliceDroppingLast(n, begin, end) ==
    [kind |-> "content", lo |-> Min(begin, n), hi |-> Max(Min(begin, n), Min(end, n) - 1)]
\* int16.slice(begin, end): both ends are clamped to the array
Slice(n, begin, end) ==
    [kind |-> "content", lo |-> Min(begin, n), hi |-> Max(Min(begin, n), Min(end, n))]

SilenceOfNoLength == [kind |-> "silence", lo |-> 0, hi |-> 0]
\* new Int16Array(samplesPerFrame): all zero
Silence == [kind |-> "silence", lo |-> 0, hi |-> samplesPerFrame]

FrameLength(fr) == fr.hi - fr.lo

IdleStream == [pc |-> "idle", n |-> 0, i |-> 0, start |-> 0, sent |-> << >>]

FrameIndex(i) == i \div samplesPerFrame
ExpectedTime(startTime, frameIndex) == startTime + frameIndex * frameDurationMs

NeverAhead(currentTime, expectedTime) == FALSE
\* if (currentTime < expectedTime) await setTimeout(expectedTime - currentTime)
AheadOfSchedule(currentTime, expectedTime) == currentTime < expectedTime

\* slice i .. i + samplesPerFrame is handed to captureFrame
CaptureContent(c) ==
    [c EXCEPT !.pc = "capture", !.sent = Append(@, Slice(c.n, c.i, c.i + samplesPerFrame))]

\* The head of the for loop at index c.i, at time t
LoopStep(c, t) ==
    IF c.i >= c.n THEN [c EXCEPT !.pc = "done"]
    ELSE IF AheadOfSchedule(t, ExpectedTime(c.start, FrameIndex(c.i)))
    THEN [c EXCEPT !.pc = "sleep"]
    ELSE CaptureContent(c)

\* captureFrame(silence) is issued
CaptureSilence(c) == [c EXCEPT !.pc = "silence", !.sent = Append(@, Silence)]

\* deserialize(opts) with options: the room is created and connected
Deserialize ==
    /\ ~room
    /\ room' = TRUE
    /\ UNCHANGED << audioSource, published, streams, vars, lockVars, detected, listeners, agentActions, ioVars >>

\* publishAudioStream(audioBuffer) is called: up to the await on convertToPcm
StreamCall(k) ==
    /\ streams[k].pc = "idle"
    /\ \A j \in 1..(k - 1) : streams[j].pc # "idle"
    /\ streams' = [streams EXCEPT ![k] = [@ EXCEPT !.pc = "convert"]]
    /\ UNCHANGED << room, audioSource, published, vars, lockVars, detected, listeners, agentActions, ioVars >>

\* convertToPcm settles: it rejects, or decodes n samples. With samples the
\* source and track are created on first use and publishTrack is issued
\* (skipped by the optional chaining when there is no room).
StreamConverted(k, ok, n) ==
    /\ streams[k].pc = "convert"
    /\ IF ~ok
       THEN /\ streams' = [streams EXCEPT ![k] = [@ EXCEPT !.pc = "failed"]]
            /\ UNCHANGED << audioSource, published >>
       ELSE IF n = 0
       THEN /\ streams' = [streams EXCEPT ![k] = [@ EXCEPT !.pc = "done"]]
            /\ UNCHANGED << audioSource, published >>
       ELSE IF ~audioSource /\ room
       THEN /\ audioSource' = TRUE
            /\ published' = [published EXCEPT !.calls = @ + 1]
            /\ streams' = [streams EXCEPT ![k] = [@ EXCEPT !.pc = "publish", !.n = n]]
       ELSE /\ audioSource' = TRUE
            /\ streams' = [streams EXCEPT ![k] = CaptureSilence([@ EXCEPT !.n = n])]
            /\ UNCHANGED published
    /\ UNCHANGED << room, vars, lockVars, detected, listeners, agentActions, ioVars >>

\* publishTrack settles: on success the silence frame is issued, on failure
\* the call rejects
StreamPublished(k, ok) ==
    /\ streams[k].pc = "publish"
    /\ IF ok
       THEN /\ published' = [published EXCEPT !.done = @ + 1]
            /\ streams' = [streams EXCEPT ![k] = CaptureSilence(@)]
       ELSE /\ streams' = [streams EXCEPT ![k] = [@ EXCEPT !.pc = "failed"]]
            /\ UNCHANGED published
    /\ UNCHANGED << room, audioSource, vars, lockVars, detected, listeners, agentActions, ioVars >>

\* captureFrame(silence) settles: startTime = Date.now(), first loop head
StreamSilenceCaptured(k, ok) ==
    /\ streams[k].pc = "silence"
    /\ streams' = [streams EXCEPT ![k] =
                      IF ok THEN LoopStep([@ EXCEPT !.start = now, !.i = 0], now)
                      ELSE [@ EXCEPT !.pc = "failed"]]
    /\ UNCHANGED << room, audioSource, published, vars, lockVars, detected, listeners, agentActions, ioVars >>

\* captureFrame(frame) settles: i += samplesPerFrame, next loop head
StreamFrameCaptured(k, ok) ==
    /\ streams[k].pc = "capture"
    /\ streams' = [streams EXCEPT ![k] =
                      IF ok THEN LoopStep([@ EXCEPT !.i = @ + samplesPerFrame], now)
                      ELSE [@ EXCEPT !.pc = "failed"]]
    /\ UNCHANGED << room, audioSource, published, vars, lockVars, detected, listeners, agentActions, ioVars >>

\* the pacing timer runs, at its deadline or later
StreamWake(k) ==
    /\ streams[k].pc = "sleep"
    /\ now >= ExpectedTime(streams[k].start, FrameIndex(streams[k].i))
    /\ streams' = [streams EXCEPT ![k] = CaptureContent(@)]
    /\ UNCHANGED << room, audioSource, published, vars, lockVars, detected, listeners, agentActions, ioVars >>

\* time passes while calls are suspended
StreamTimePasses(d) ==
    /\ now + d <= MaxStreamTime
    /\ \E k \in 1..MaxStreams : streams[k].pc \notin {"idle", "done", "failed", "refused", "skipped"}
    /\ now' = now + d
    /\ UNCHANGED << userStates, processingVoice, transcriptionTimeout, timers, isStarted,
                    lockCount, turns, replies, bmPc, bmCb, speaking, ev, gap, used,
                    lockVars, kitVars >>

----------------------------------------------------------------------------
(* VoiceManager.playAudio together with the publishAudioStream call it       *)
(* awaits: call k of playAudio awaits streams[k]                             *)

\* How a playAudio call that publishes nothing is recorded in its slot
Returned(busy) == IF busy THEN "refused" ELSE "skipped"

\* playAudio(audioBuffer) is called (call k): refused while busy, skipped
\* without a service, world or transport; otherwise the flags are set and
\* publishAudioStream is called
PlayAudio(k, avail) ==
    /\ streams[k].pc = "idle"
    /\ \A j \in 1..(k - 1) : streams[j].pc # "idle"
    /\ ev' = Event(IF processingVoice THEN "playBusy"
                   ELSE IF ~avail THEN "playUnavailable" ELSE "playAudio",
                   "kit", plays # {})
    /\ IF PlayAudioStarts(avail)
       THEN /\ processingVoice' = TRUE
            /\ speaking' = TRUE
            /\ plays' = plays \cup {k}
            /\ streams' = [streams EXCEPT ![k] = [@ EXCEPT !.pc = "convert"]]
       ELSE /\ streams' = [streams EXCEPT ![k] = [@ EXCEPT !.pc = Returned(processingVoice)]]
            /\ UNCHANGED << processingVoice, speaking, plays >>
    /\ UNCHANGED << userStates, transcriptionTimeout, timers, isStarted, lockCount, turns,
                    replies, bmPc, bmCb, now, gap, used, lockVars,
                    room, audioSource, published, detected, listeners,
                    agentActions, drained, loop, callback >>

PlayAudioSettledInTry(k) ==
    /\ k \in plays
    /\ streams[k].pc \in {"done", "failed"}
    /\ plays' = plays \ {k}
    /\ processingVoice' = (streams[k].pc = "failed" /\ processingVoice)
    /\ speaking' = (streams[k].pc = "failed" /\ speaking)
    /\ ev' = Event("played", "kit", streams[k].pc = "failed")
    /\ UNCHANGED << userStates, transcriptionTimeout, timers, isStarted, lockCount, turns,
                    replies, bmPc, bmCb, now, gap, used, lockVars,
                    room, audioSource, published, streams, detected, listeners,
                    agentActions, drained, loop, callback >>
\* publishAudioStream of call k has resolved or rejected: the catch logs,
\* the finally resets the busy flag and the speaking state
PlayAudioSettled(k) ==
    /\ k \in plays
    /\ streams[k].pc \in {"done", "failed"}
    /\ plays' = plays \ {k}
    /\ processingVoice' = FALSE
    /\ speaking' = FALSE
    /\ ev' = Event("played", "kit", streams[k].pc = "failed")
    /\ UNCHANGED << userStates, transcriptionTimeout, timers, isStarted, lockCount, turns,
                    replies, bmPc, bmCb, now, gap, used, lockVars,
                    room, audioSource, published, streams, detected, listeners,
                    agentActions, drained, loop, callback >>

----------------------------------------------------------------------------
(* AgentLiveKit.detectAudioFormat: buffers are sequences of bytes 0..255    *)

\* "R", "I", "F" with and without the top bit, and bytes around the sync pattern
Bytes == {0, 70, 73, 82, 198, 210, 223, 224, 255}
Buffers == UNION {[1..len -> Bytes] : len \in 0..MaxHeaderLen}

RIFF == << 82, 73, 70, 70 >>

\* buffer.slice(0, 4)
Slice4(buffer) == SubSeq(buffer, 1, Min(4, Len(buffer)))

\* toString('ascii'): every byte is decoded with its top bit cleared
Ascii(bytes) == [i \in 1..Len(bytes) |-> bytes[i] % 128]

\* buffer[i], 0-based; undefined (here -1) past the end
ByteAt(buffer, i) == IF i + 1 <= Len(buffer) THEN buffer[i + 1] ELSE -1

\* (b & 0xe0) === 0xe0, for a byte or undefined
TopThreeBitsSet(b) == b >= 0 /\ (b \div 32) = 7

detectAudioFormat(buffer) ==
    IF Ascii(Slice4(buffer)) = RIFF THEN "wav"
    ELSE IF ByteAt(buffer, 0) = 255 /\ TopThreeBitsSet(ByteAt(buffer, 1)) THEN "mp3"
    ELSE "pcm"

----------------------------------------------------------------------------
(* AgentLiveKit.convertToPcm, up to its return or to the start of ffmpeg     *)

\* Where a Buffer can sit in its ArrayBuffer: at an even or at an odd byte
ByteOffsets == {0, 1}

NoOutcome == [kind |-> "none", samples |-> << >>]

\* one little-endian 16-bit signed sample
Int16LE(lo, hi) ==
    LET u == lo + 256 * hi IN IF u >= 32768 THEN u - 65536 ELSE u

\* the two bytes of a sample in memory, low byte first
RECURSIVE BytesOf(_)
BytesOf(samples) ==
    IF samples = << >> THEN << >>
    ELSE LET u == (Head(samples) + 65536) % 65536
         IN  << u % 256, u \div 256 >> \o BytesOf(Tail(samples))

\* new Int16Array(buffer.buffer, byteOffset, length): a RangeError unless the
\* offset is a multiple of 2; a fractional length is truncated
Int16View(buffer, byteOffset, twiceLength) ==
    IF byteOffset % 2 # 0
    THEN [kind |-> "RangeError", samples |-> << >>]
    ELSE [kind |-> "samples",
          samples |-> [i \in 1..(twiceLength \div 2) |->
                          Int16LE(buffer[2 * i - 1], buffer[2 * i])]]

\* raw PCM is returned as a view; anything else is handed to ffmpeg
convertToPcm(buffer, byteOffset) ==
    IF detectAudioFormat(buffer) = "pcm"
    THEN Int16View(buffer, byteOffset, Len(buffer))
    ELSE [kind |-> "ffmpeg", samples |-> << >>]

\* convertToPcm(buffer) is called (calls do not depend on one another: one
\* call per behaviour)
ConvertCall(buffer, byteOffset) ==
    /\ detected.format = "none"
    /\ detected' = [buffer |-> buffer, byteOffset |-> byteOffset,
                    format |-> detectAudioFormat(buffer),
                    out |-> convertToPcm(buffer, byteOffset)]
    /\ UNCHANGED << room, audioSource, published, streams, listeners, agentActions, vars, lockVars, ioVars >>

----------------------------------------------------------------------------
(* BehaviorManager.runLoop: execute, choose a delay, sleep                   *)

\* How one executeBehavior call ends: the four early returns, the return at
\* the lock gate, the return at the end, an exception from any await
Endings == {"noService", "noWorld", "noPlayer", "alone", "locked", "done", "threw"}

\* Math.random(), in thousandths
RandomDraws == {0, 500, RandomScale - 1}
\* how long an execution takes and how late a timer runs, in ms
ExecTimes == {0, 4000}
Lateness == {0, 250}

ReportedEvenIfThrown(ending) == ending \in {"locked", "done", "threw"}
\* hasOtherPlayers after the try/catch: executeBehavior's return value, or the
\* initial false when it threw
Reported(ending) == ending \in {"locked", "done"}

\* minDelay + Math.floor(Math.random() * (maxDelay - minDelay))
Delay(hasOtherPlayers, draw) ==
    LET minDelay == IF hasOtherPlayers THEN TIME_INTERVAL_MIN ELSE TIME_INTERVAL_IDLE_MIN
        maxDelay == IF hasOtherPlayers THEN TIME_INTERVAL_MAX ELSE TIME_INTERVAL_IDLE_MAX
    IN  minDelay + (draw * (maxDelay - minDelay)) \div RandomScale

\* One invocation of runLoop, at its first execution, begun at time t
NewLoop(t) ==
    [pc |-> "run", runs |-> 1, started |-> t, ending |-> "none",
     hasOtherPlayers |-> FALSE, ended |-> 0, delay |-> 0]

\* start(): isRunning is set and the first execution begins
FirstRun == [isRunning |-> TRUE, all |-> << NewLoop(0) >>, refused |-> FALSE]

\* start() goes on unless isRunning
StartProceeds(isRunning) == ~isRunning

\* start() called again: nothing while running; otherwise isRunning is set
\* and runLoop is invoked, which runs up to its first executeBehavior
LoopStart ==
    /\ Len(loop.all) < MaxLoops
    /\ loop' = IF StartProceeds(loop.isRunning)
               THEN [loop EXCEPT !.isRunning = TRUE, !.all = Append(@, NewLoop(now)),
                                 !.refused = FALSE]
               ELSE [loop EXCEPT !.refused = TRUE]
    /\ UNCHANGED << vars, lockVars, room, audioSource, published, streams, detected, listeners, agentActions,
                    plays, drained, callback >>

\* executeBehavior of invocation i settles after `took` ms; the delay is
\* chosen and the timer set
LoopExecuted(i, ending, took, draw) ==
    /\ i \in 1..Len(loop.all)
    /\ loop.all[i].pc = "run"
    /\ now' = now + took
    /\ loop' = [loop EXCEPT !.all[i] =
                    [@ EXCEPT !.pc = "wait", !.ending = ending,
                              !.hasOtherPlayers = Reported(ending),
                              !.ended = now + took,
                              !.delay = Delay(Reported(ending), draw)]]
    /\ UNCHANGED << userStates, processingVoice, transcriptionTimeout, timers, isStarted,
                    lockCount, turns, replies, bmPc, bmCb, speaking, ev, gap, used, lockVars,
                    room, audioSource, published, streams, detected, listeners,
                    agentActions, plays, drained, callback >>

\* the timer of invocation i runs, `late` ms after its delay or later: the
\* while test, the next execution
LoopWake(i, late) ==
    /\ i \in 1..Len(loop.all)
    /\ loop.all[i].pc = "wait"
    /\ loop.all[i].runs < MaxLoopRuns \/ ~loop.isRunning
    /\ now' = Max(now, loop.all[i].ended + loop.all[i].delay + late)
    /\ loop' = IF loop.isRunning
               THEN [loop EXCEPT !.all[i] =
                        [@ EXCEPT !.pc = "run", !.runs = @ + 1, !.started = now']]
               ELSE [loop EXCEPT !.all[i] = [@ EXCEPT !.pc = "stopped"]]
    /\ UNCHANGED << userStates, processingVoice, transcriptionTimeout, timers, isStarted,
                    lockCount, turns, replies, bmPc, bmCb, speaking, ev, gap, used, lockVars,
                    room, audioSource, published, streams, detected, listeners,
                    agentActions, plays, drained, callback >>

\* stop(): nothing unless running
LoopStop ==
    /\ loop.isRunning
    /\ \E i \in 1..Len(loop.all) : loop.all[i].pc # "stopped"
    /\ loop' = [loop EXCEPT !.isRunning = FALSE]
    /\ UNCHANGED << vars, lockVars, room, audioSource, published, streams, detected, listeners, agentActions,
                    plays, drained, callback >>

\* One start(), then executions and a stop()
NextLoop ==
    \/ \E ending \in Endings, took \in ExecTimes, draw \in RandomDraws :
          LoopExecuted(1, ending, took, draw)
    \/ \E late \in Lateness : LoopWake(1, late)
    \/ LoopStop

\* start() and stop() in any order, the loops they leave behind
NextRestart ==
    \/ LoopStart
    \/ LoopStop
    \/ \E i \in 1..MaxLoops, ending \in {"alone", "done", "threw"} :
          LoopExecuted(i, ending, 0, 0)
    \/ \E i \in 1..MaxLoops : LoopWake(i, 0)

----------------------------------------------------------------------------
(* The reply callback of executeBehavior, call by call: what it asks of the  *)
(* runtime, the world and the speech services, in order                      *)

\* What a speech request can come back with
TtsOutcomes == {"buffer", "null", "threw"}

IdleCallback(n) ==
    [pc |-> "idle", n |-> n, calls |-> << >>, text |-> FALSE,
     eleven |-> "none", openai |-> "none", play |-> "none"]

AlwaysFallback(audioBuffer) == TRUE
\* if (!audioBuffer)
NeedsFallback(audioBuffer) == audioBuffer = "null"

\* if (audioBuffer) { voiceManager = ...; if (voiceManager) await playAudio }
AfterSynthesis(c, audioBuffer, hasVoiceManager) ==
    IF audioBuffer = "buffer" /\ hasVoiceManager
    THEN [c EXCEPT !.pc = "playing", !.calls = Append(@, "playAudio")]
    ELSE [c EXCEPT !.pc = "returned"]

\* the runtime invokes the callback: up to the await on createMemory
CallbackInvoked(text, emote) ==
    /\ callback.pc \in {"idle", "returned", "threw"}
    /\ callback.n < MaxCallbacks
    /\ callback' = [IdleCallback(callback.n + 1) EXCEPT
                        !.pc = IF emote THEN "memoryThenEmote" ELSE "memory",
                        !.text = text,
                        !.calls = << "createMemory" >>]
    /\ UNCHANGED << vars, lockVars, room, audioSource, published, streams, detected, listeners, agentActions,
                    plays, drained, loop >>

\* createMemory settles: the emote, the chat message, the ElevenLabs request
CallbackMemoryDone(ok, emoteOk) ==
    /\ callback.pc \in {"memory", "memoryThenEmote"}
    /\ callback' =
          LET emote == callback.pc = "memoryThenEmote"
              c1 == IF emote THEN [callback EXCEPT !.calls = Append(@, "playEmote")]
                    ELSE callback
          IN  IF ~ok THEN [callback EXCEPT !.pc = "threw"]
              ELSE IF emote /\ ~emoteOk THEN [c1 EXCEPT !.pc = "threw"]
              ELSE IF ~callback.text THEN [c1 EXCEPT !.pc = "returned"]
              ELSE [c1 EXCEPT !.pc = "eleven", !.eleven = "pending",
                              !.calls = @ \o << "sendMessage", "generateElevenLabsTTS" >>]
    /\ UNCHANGED << vars, lockVars, room, audioSource, published, streams, detected, listeners, agentActions,
                    plays, drained, loop >>

\* generateElevenLabsTTS settles
CallbackElevenDone(outcome, hasVoiceManager) ==
    /\ callback.pc = "eleven"
    /\ callback' =
          LET c == [callback EXCEPT !.eleven = outcome]
          IN  IF outcome = "threw" THEN [c EXCEPT !.pc = "returned"]
              ELSE IF NeedsFallback(outcome)
              THEN [c EXCEPT !.pc = "openai", !.openai = "pending",
                             !.calls = Append(@, "generateOpenAITTS")]
              ELSE AfterSynthesis(c, outcome, hasVoiceManager)
    /\ UNCHANGED << vars, lockVars, room, audioSource, published, streams, detected, listeners, agentActions,
                    plays, drained, loop >>

\* generateOpenAITTS settles
CallbackOpenAIDone(outcome, hasVoiceManager) ==
    /\ callback.pc = "openai"
    /\ callback' =
          LET c == [callback EXCEPT !.openai = outcome]
          IN  IF outcome = "threw" THEN [c EXCEPT !.pc = "returned"]
              ELSE AfterSynthesis(c, outcome, hasVoiceManager)
    /\ UNCHANGED << vars, lockVars, room, audioSource, published, streams, detected, listeners, agentActions,
                    plays, drained, loop >>

\* playAudio settles: resolved, or rejected into the catch
CallbackPlayDone(ok) ==
    /\ callback.pc = "playing"
    /\ callback' = [callback EXCEPT !.pc = "returned",
                                    !.play = IF ok THEN "played" ELSE "failed"]
    /\ UNCHANGED << vars, lockVars, room, audioSource, published, streams, detected, listeners, agentActions,
                    plays, drained, loop >>

NextCallback ==
    \/ \E text \in BOOLEAN, emote \in BOOLEAN : CallbackInvoked(text, emote)
    \/ \E ok \in BOOLEAN, emoteOk \in BOOLEAN : CallbackMemoryDone(ok, emoteOk)
    \/ \E outcome \in TtsOutcomes, hasVoiceManager \in BOOLEAN :
          CallbackElevenDone(outcome, hasVoiceManager)
    \/ \E outcome \in TtsOutcomes, hasVoiceManager \in BOOLEAN :
          CallbackOpenAIDone(outcome, hasVoiceManager)
    \/ \E ok \in BOOLEAN : CallbackPlayDone(ok)

----------------------------------------------------------------------------
(* convertToAudioBuffer(speechResponse): one call                            *)

\* What a speech model can hand back: a Buffer, an object with getReader (a
\* web ReadableStream), a Node Readable, any mix of the three, or none
Responses ==
    [isBuffer : BOOLEAN, getReader : BOOLEAN, readable : BOOLEAN,
     bytes : {<< >>, << 7, 8 >>}]

\* What a stream delivers at a time
Chunks == {<< >>, << 1 >>, << 2, 3 >>}

\* the order of the tests: Buffer.isBuffer, then getReader, then Readable
ResponseKind(r) ==
    IF r.isBuffer THEN "buffer"
    ELSE IF r.getReader THEN "web"
    ELSE IF r.readable THEN "node"
    ELSE "other"

IdleDrain ==
    [pc |-> "idle", kind |-> "none", bytes |-> << >>, chunks |-> << >>,
     delivered |-> << >>, ended |-> FALSE, errored |-> FALSE, result |-> << >>]

DrainFirstChunk(chunks) == IF chunks = << >> THEN << >> ELSE chunks[1]
\* Buffer.concat(chunks)
DrainResult(chunks) == Concat(chunks)

\* The call, up to its return, its throw or its first await
ConvertToAudioBuffer(r) ==
    /\ drained.pc = "idle"
    /\ drained' =
          LET kind == ResponseKind(r)
              d == [IdleDrain EXCEPT !.kind = kind, !.bytes = r.bytes]
          IN  IF kind = "buffer" THEN [d EXCEPT !.pc = "resolved", !.result = r.bytes]
              ELSE IF kind = "web" THEN [d EXCEPT !.pc = "reading"]
              ELSE IF kind = "node" THEN [d EXCEPT !.pc = "listening"]
              ELSE [d EXCEPT !.pc = "rejected"]
    /\ UNCHANGED << vars, lockVars, room, audioSource, published, streams, detected, listeners, agentActions,
                    plays, loop, callback >>

\* reader.read() resolves with a chunk (possibly without a value): it is
\* kept and the next read is issued
ReaderChunk(hasValue, value) ==
    /\ drained.pc = "reading"
    /\ Len(drained.delivered) < MaxDeliveries
    /\ drained' = IF hasValue
                  THEN [drained EXCEPT !.chunks = Append(@, value),
                                       !.delivered = Append(@, value)]
                  ELSE [drained EXCEPT !.delivered = Append(@, << >>)]
    /\ UNCHANGED << vars, lockVars, room, audioSource, published, streams, detected, listeners, agentActions,
                    plays, loop, callback >>

\* reader.read() resolves with done, or it rejects: the lock is released and
\* the call resolves with the chunks read, or rejects
ReaderSettled(ok) ==
    /\ drained.pc = "reading"
    /\ drained' = IF ok
                  THEN [drained EXCEPT !.pc = "resolved", !.ended = TRUE,
                                       !.result = DrainResult(drained.chunks)]
                  ELSE [drained EXCEPT !.pc = "rejected", !.errored = TRUE]
    /\ UNCHANGED << vars, lockVars, room, audioSource, published, streams, detected, listeners, agentActions,
                    plays, loop, callback >>

\* the Readable emits 'data'
ReadableData(chunk) ==
    /\ drained.pc = "listening"
    /\ Len(drained.delivered) < MaxDeliveries
    /\ drained' = [drained EXCEPT !.chunks = Append(@, chunk), !.delivered = Append(@, chunk)]
    /\ UNCHANGED << vars, lockVars, room, audioSource, published, streams, detected, listeners, agentActions,
                    plays, loop, callback >>

\* the Readable emits 'end' or 'error'
ReadableSettled(ok) ==
    /\ drained.pc = "listening"
    /\ drained' = IF ok
                  THEN [drained EXCEPT !.pc = "resolved", !.ended = TRUE,
                                       !.result = DrainResult(drained.chunks)]
                  ELSE [drained EXCEPT !.pc = "rejected", !.errored = TRUE]
    /\ UNCHANGED << vars, lockVars, room, audioSource, published, streams, detected, listeners, agentActions,
                    plays, loop, callback >>

NextDrain ==
    \/ \E r \in Responses : ConvertToAudioBuffer(r)
    \/ \E hasValue \in BOOLEAN, value \in Chunks : ReaderChunk(hasValue, value)
    \/ \E ok \in BOOLEAN : ReaderSettled(ok)
    \/ \E chunk \in Chunks : ReadableData(chunk)
    \/ \E ok \in BOOLEAN : ReadableSettled(ok)

----------------------------------------------------------------------------
(* AgentActions: performAction, releaseAction and their timeouts *)

NoNode == "none"
\* this.nodes in registration order, none of them finished
Nodes == << "n1", "n2" >>
\* the entityID argument: absent (""), a registered node, an unknown id
EntityIDs == {"", "n1", "n2", "nx"}

NewAgentActions ==
    [currentNode |-> NoNode, timeouts |-> << >>, keyE |-> FALSE, keyX |-> FALSE,
     calls |-> 0, triggered |-> 0, cancels |-> 0]

\* the target of performAction: the node of that entity, or nearby[0]
Target(entityID) ==
    IF entityID = "" THEN Nodes[1]
    ELSE IF \E i \in 1..Len(Nodes) : Nodes[i] = entityID THEN entityID
    ELSE NoNode

\* performAction(entityID): refused while currentNode is set; otherwise
\* press keyE and schedule the trigger after target._duration ?? 3000 ms
PerformAction(entityID) ==
    /\ agentActions.calls < MaxCalls
    /\ agentActions' =
          IF agentActions.currentNode # NoNode \/ Target(entityID) = NoNode
          THEN [agentActions EXCEPT !.calls = @ + 1]
          ELSE [agentActions EXCEPT
                   !.calls = @ + 1,
                   !.keyE = TRUE,
                   !.timeouts = Append(@, [kind |-> "trigger", node |-> Target(entityID)])]
    /\ UNCHANGED << vars, lockVars, room, audioSource, published, streams, detected, listeners,
                    ioVars >>

\* releaseAction(): refused while currentNode is null; otherwise press keyX,
\* call currentNode._onCancel() and schedule the reset after 500 ms
ReleaseAction ==
    /\ agentActions.calls < MaxCalls
    /\ agentActions' =
          IF agentActions.currentNode = NoNode
          THEN [agentActions EXCEPT !.calls = @ + 1]
          ELSE [agentActions EXCEPT
                   !.calls = @ + 1,
                   !.keyX = TRUE,
                   !.cancels = @ + 1,
                   !.timeouts = Append(@, [kind |-> "release",
                                           node |-> agentActions.currentNode])]
    /\ UNCHANGED << vars, lockVars, room, audioSource, published, streams, detected, listeners,
                    ioVars >>

Without(q, i) == SubSeq(q, 1, i - 1) \o SubSeq(q, i + 1, Len(q))

\* A pending timeout runs. The trigger callback calls target._onTrigger,
\* releases keyE and sets currentNode; the release callback releases keyX and
\* clears currentNode. The delays are node data (_duration) and 500 ms and
\* the calls come at any moment: pending callbacks run in any order.
TimeoutFires(i) ==
    /\ i \in 1..Len(agentActions.timeouts)
    /\ agentActions' =
          IF agentActions.timeouts[i].kind = "trigger"
          THEN [agentActions EXCEPT
                   !.timeouts = Without(@, i),
                   !.triggered = @ + 1,
                   !.keyE = FALSE,
                   !.currentNode = agentActions.timeouts[i].node,
                   !.cancels = 0]
          ELSE [agentActions EXCEPT
                   !.timeouts = Without(@, i),
                   !.keyX = FALSE,
                   !.currentNode = NoNode]
    /\ UNCHANGED << vars, lockVars, room, audioSource, published, streams, detected, listeners,
                    ioVars >>

NextActions ==
    \/ \E entityID \in EntityIDs : PerformAction(entityID)
    \/ ReleaseAction
    \/ \E i \in 1..MaxCalls : TimeoutFires(i)

----------------------------------------------------------------------------
Init ==
    /\ userStates = EmptyMap
    /\ processingVoice = FALSE
    /\ transcriptionTimeout = NoHandle
    /\ timers = {}
    /\ isStarted = FALSE
    /\ lockCount = 0
    /\ turns = << >>
    /\ replies = << >>
    /\ bmPc = "sleep"
    /\ bmCb = "idle"
    /\ speaking = FALSE
    /\ now = 0
    /\ ev = NoEvent
    /\ gap = [last |-> -1, fires |-> 0, armed |-> FALSE, cleaned |-> FALSE, player |-> ""]
    /\ used = [frames |-> 0, cleanups |-> 0, ticks |-> 0, loud |-> FALSE, failed |-> FALSE]
    /\ lk = 0
    /\ lkStack = << >>
    /\ lkDone = [kind |-> "none", before |-> 0, after |-> 0, outcome |-> "none"]
    /\ room = FALSE
    /\ audioSource = FALSE
    /\ published = [calls |-> 0, done |-> 0]
    /\ streams = [k \in 1..MaxStreams |-> IdleStream]
    /\ detected = [buffer |-> << >>, byteOffset |-> 0, format |-> "none", out |-> NoOutcome]
    /\ listeners = 1
    /\ agentActions = NewAgentActions
    /\ plays = {}
    /\ drained = IdleDrain
    /\ loop = FirstRun
    /\ callback = IdleCallback(0)

\* What the awaited external calls can answer; answers that no branch of the
\* handler reads are not enumerated twice
SttOutcomes ==
    {<< FALSE, TextEmpty, TRUE >>}
    \cup {<< TRUE, t, TRUE >> : t \in Texts}
    \cup {<< TRUE, t, FALSE >> : t \in {TextHello}}
ConnectOutcomes == {<< FALSE, TRUE >>, << TRUE, TRUE >>, << TRUE, FALSE >>}
PlayOutcomes == {<< FALSE, TRUE >>, << TRUE, TRUE >>, << TRUE, FALSE >>}
TickOutcomes == {<< FALSE, WorldShared >>, << TRUE, WorldAlone >>, << TRUE, WorldShared >>}

VoiceNext ==
    \/ \E p \in Speakers, f \in Frames : OnAudio(p, f)
    \/ \E h \in timers : Advance(h.deadline, MaxTime)
    \/ \E h \in timers : TimerFire(h)
    \/ \E i \in 1..MaxTurns, o \in SttOutcomes : SttDone(i, o[1], o[2], o[3])
    \/ \E i \in 1..MaxTurns, o \in ConnectOutcomes : ConnectDone(i, o[1], o[2])
    \/ \E i \in 1..MaxReplies, o \in PlayOutcomes : ReplyCallback(i, o[1], o[2])
    \/ \E i \in 1..MaxReplies : ReplyPlaybackDone(i)
    \/ \E i \in 1..MaxReplies : ReplyComplete(i)
    \/ \E i \in 1..MaxReplies : ReplyFail(i)

BehaviorNext ==
    \/ \E o \in TickOutcomes : BehaviorTick(o[1], o[2])
    \/ \E ok \in BOOLEAN : BehaviorDecided(ok)
    \/ \E o \in PlayOutcomes : BehaviorCallback(o[1], o[2])
    \/ BehaviorPlaybackDone
    \/ \E ok \in BOOLEAN : BehaviorActionsDone(ok)
    \/ BehaviorEvaluateDone

\* The whole agent: voice pipeline, behaviour loop, cleanup() on disconnect
Next == VoiceNext \/ BehaviorNext \/ Cleanup

Spec == Init /\ [][Next]_allVars

\* The agent while connected (no cleanup())
NextLive == VoiceNext \/ BehaviorNext

SpecLive == Init /\ [][NextLive]_allVars

\* The voice pipeline alone, on a finer time grid
NextDebounce ==
    \/ VoiceNext
    \/ Cleanup
    \/ \E t \in {now + d : d \in TimeStep} \cup {h.deadline : h \in timers} :
          Advance(t, MaxDebounceTime)

SpecDebounce == Init /\ [][NextDebounce]_allVars

\* The voice pipeline fed with well-formed and malformed frames
NextIngest ==
    \/ VoiceNext
    \/ \E p \in Speakers, f \in MalformedFrames : OnAudio(p, f)

SpecIngest == Init /\ [][NextIngest]_allVars

\* The voice pipeline answered with padded texts as well
NextReply ==
    \/ VoiceNext
    \/ \E i \in 1..MaxTurns, t \in PaddedTexts : SttDone(i, TRUE, t, TRUE)

SpecReply == Init /\ [][NextReply]_allVars

\* The agent in worlds of every population
NextIdle ==
    \/ NextLive
    \/ \E ready \in BOOLEAN, items \in Worlds : BehaviorTick(ready, items)

SpecIdle == Init /\ [][NextIdle]_allVars

\* The voice pipeline with start() and cleanup() called at any moment
NextStart ==
    \/ VoiceNext
    \/ Cleanup
    \/ \E avail \in BOOLEAN : VoiceStart(avail)

SpecStart == Init /\ [][NextStart]_allVars

SpecActions == Init /\ [][NextActions]_allVars


----------------------------------------------------------------------------
(* The activity lock on its own: arbitrary nestings of enter()/exit() and   *)
(* run(fn), fn returning or throwing                                        *)

Top == lkStack[Len(lkStack)]
Pop == SubSeq(lkStack, 1, Len(lkStack) - 1)
SetTop(f) == [lkStack EXCEPT ![Len(lkStack)] = f]
\* a new frame opens at the top level or inside the innermost open frame
CanNest == Len(lkStack) < MaxDepth /\ (IF lkStack = << >> THEN TRUE ELSE Top.pc = "held")

\* enter()
NestEnter ==
    /\ CanNest
    /\ lkStack' = Append(lkStack, [kind |-> "enter", before |-> lk, pc |-> "held", outcome |-> "none"])
    /\ lk' = LockEnter(lk)
    /\ UNCHANGED << lkDone, vars, kitVars >>

\* the exit() that matches the innermost enter()
NestExit ==
    /\ lkStack # << >>
    /\ Top.kind = "enter"
    /\ lk' = LockExit(lk)
    /\ lkStack' = Pop
    /\ lkDone' = [kind |-> "enter", before |-> Top.before, after |-> lk', outcome |-> "none"]
    /\ UNCHANGED << vars, kitVars >>

\* an exit() with nothing entered
StrayExit ==
    /\ lkStack = << >>
    /\ lk' = LockExit(lk)
    /\ lkDone' = [kind |-> "stray", before |-> lk, after |-> lk', outcome |-> "none"]
    /\ UNCHANGED << lkStack, vars, kitVars >>

\* run(fn): acquire, then start fn
RunBegin ==
    /\ CanNest
    /\ lkStack' = Append(lkStack, [kind |-> "run", before |-> lk, pc |-> "held", outcome |-> "none"])
    /\ lk' = LockEnter(lk)
    /\ UNCHANGED << lkDone, vars, kitVars >>

\* fn settles: it returned or it threw
RunBodyEnd(outcome) ==
    /\ lkStack # << >>
    /\ Top.kind = "run" /\ Top.pc = "held"
    /\ lkStack' = SetTop([Top EXCEPT !.pc = "settled", !.outcome = outcome])
    /\ UNCHANGED << lk, lkDone, vars, kitVars >>

\* run's release on the way out
RunRelease ==
    /\ lkStack # << >>
    /\ Top.kind = "run" /\ Top.pc = "settled"
    /\ lk' = LockExit(lk)
    /\ lkStack' = SetTop([Top EXCEPT !.pc = "released"])
    /\ UNCHANGED << lkDone, vars, kitVars >>

\* run hands fn's result or failure to its caller
RunPropagate ==
    /\ lkStack # << >>
    /\ Top.kind = "run" /\ Top.pc = "released"
    /\ lkStack' = Pop
    /\ lkDone' = [kind |-> "run", before |-> Top.before, after |-> lk, outcome |-> Top.outcome]
    /\ UNCHANGED << lk, vars, kitVars >>

NextLock ==
    \/ NestEnter
    \/ NestExit
    \/ StrayExit
    \/ RunBegin
    \/ \E outcome \in {"returned", "threw"} : RunBodyEnd(outcome)
    \/ RunRelease
    \/ RunPropagate

SpecLock == Init /\ [][NextLock]_allVars

----------------------------------------------------------------------------
(* AgentLiveKit on its own: publishAudioStream calls, possibly overlapping   *)

ConvertOutcomes == {<< FALSE, 0 >>} \cup {<< TRUE, n >> : n \in SampleCounts}

NextStream ==
    \/ Deserialize
    \/ \E k \in 1..MaxStreams : StreamCall(k)
    \/ \E k \in 1..MaxStreams, o \in ConvertOutcomes : StreamConverted(k, o[1], o[2])
    \/ \E k \in 1..MaxStreams, ok \in BOOLEAN : StreamPublished(k, ok)
    \/ \E k \in 1..MaxStreams, ok \in BOOLEAN : StreamSilenceCaptured(k, ok)
    \/ \E k \in 1..MaxStreams, ok \in BOOLEAN : StreamFrameCaptured(k, ok)
    \/ \E k \in 1..MaxStreams : StreamWake(k)
    \/ \E d \in StreamTimeStep : StreamTimePasses(d)

SpecStream == Init /\ [][NextStream]_allVars

\* What convertToPcm answers to a playAudio call: failure, nothing, one short
\* frame, one full frame and a sample
PlayConvertOutcomes == {<< FALSE, 0 >>, << TRUE, 0 >>, << TRUE, 1 >>, << TRUE, samplesPerFrame + 1 >>}

\* playAudio calls (overlapping once cleanup() has reset the busy flag) and
\* the streams they await
NextPlayback ==
    \/ Deserialize
    \/ Cleanup
    \/ \E k \in 1..MaxStreams, avail \in BOOLEAN : PlayAudio(k, avail)
    \/ \E k \in 1..MaxStreams : PlayAudioSettled(k)
    \/ \E k \in 1..MaxStreams, o \in PlayConvertOutcomes : StreamConverted(k, o[1], o[2])
    \/ \E k \in 1..MaxStreams, ok \in BOOLEAN : StreamPublished(k, ok)
    \/ \E k \in 1..MaxStreams, ok \in BOOLEAN : StreamSilenceCaptured(k, ok)
    \/ \E k \in 1..MaxStreams, ok \in BOOLEAN : StreamFrameCaptured(k, ok)
    \/ \E k \in 1..MaxStreams : StreamWake(k)
    \/ \E d \in StreamTimeStep : StreamTimePasses(d)

SpecPlayback == Init /\ [][NextPlayback]_allVars

SpecLoop == Init /\ [][NextLoop]_allVars

SpecRestart == Init /\ [][NextRestart]_allVars

SpecCallback == Init /\ [][NextCallback]_allVars

SpecDrain == Init /\ [][NextDrain]_allVars

NextFormat == \E buffer \in Buffers, byteOffset \in ByteOffsets : ConvertCall(buffer, byteOffset)

SpecFormat == Init /\ [][NextFormat]_allVars

----------------------------------------------------------------------------
(* Properties *)

EndTypes == {"endNoAudio", "endSttError", "endNoText", "endIgnored", "endWorldError",
             "endConnectError", "endReply", "endEmitError"}

\* The lock is held on behalf of a voice turn: a turn is executing, or its
\* reply has been emitted and not yet completed
VoiceTurnInFlight == turns # << >> \/ replies # << >>

\* C1: the behaviour loop is never past its gating check and still running
\* (composing, in processActions or in evaluate) while the activity lock is
\* active because of a voice turn.
C1_BehaviorNeverRunsDuringVoiceTurn ==
    ~(bmPc \in PastGate /\ LockIsActive(lockCount) /\ VoiceTurnInFlight)

\* C2: at most one debounce-callback body is executing at any time.
C2_AtMostOneTurnExecuting == Len(turns) <= 1

\* C3: a debounce firing that finds the lock active for a concurrent turn
\* starts no speech-to-text call and leaves every session cleared.
C3_FireWhileLockedTranscribesNothing ==
    [][ (ev'.type \in {"fire", "endNoAudio"} /\ LockIsActive(lockCount) /\ VoiceTurnInFlight)
        => (Len(turns') = Len(turns) /\ AllClean(userStates')) ]_allVars

\* C4: at most one publishAudioStream call started by playAudio is in flight.
C4_AtMostOnePlayback == Playbacks <= 1

\* C5: a playAudio call made while a prior playAudio is still running starts
\* no playback and changes neither the speaking flag nor the busy flag.
C5_PlayAudioWhilePlayingIsNoOp ==
    [][ (ev'.type = "playAudio" /\ ev'.flag)
        => (Playbacks' = Playbacks /\ speaking' = speaking
            /\ processingVoice' = processingVoice) ]_allVars

\* C6: once no turn is executing and no reply is in flight, every acquisition
\* of the voice pipeline has been released: the lock is not active.
C6_LockReleasedAfterTurn ==
    (turns = << >> /\ replies = << >>) => ~LockIsActive(lockCount)

\* C7: the counter is never negative, isActive() is counter > 0, every held
\* frame counts for one, every unwound enter/exit pair or run (returned or
\* thrown) leaves the counter where it was before, a run's outcome is handed on
\* only after its release, and the lock is inactive once fully unwound.
HeldFrames == {i \in 1..Len(lkStack) : lkStack[i].pc \in {"held", "settled"}}
C7_LockCounterDiscipline ==
    /\ lk >= 0
    /\ LockIsActive(lk) <=> (lk > 0)
    /\ lk = Cardinality(HeldFrames)
    /\ lkDone.after = lkDone.before
    /\ \A i \in 1..Len(lkStack) : lkStack[i].pc = "released" => lk = lkStack[i].before
    /\ lkStack = << >> => ~LockIsActive(lk)
C7_Witness ==
    /\ lkDone.kind = "run" /\ lkDone.outcome = "threw" /\ lkDone.before = 1
    /\ Len(lkStack) = 1 /\ lkStack[1].kind = "enter"

\* C8: at the end of every debounce turn, whatever its outcome, every session
\* has no chunks, cumulative length 0 and an empty transcript when the scoped
\* acquisition is released.
C8_AllSessionsClearedAtRelease == ev.type \in EndTypes => AllClean(userStates)
C8_Witness ==
    /\ ev.type = "endReply" /\ ev.flag
    /\ Cardinality(DOMAIN userStates) = 2

\* More than 1500 ms have passed since the last accepted frame, with the
\* pipeline left running (no cleanup() in between)
GapElapsed ==
    /\ gap.last >= 0
    /\ now > gap.last + DEBOUNCE_TRANSCRIPTION_THRESHOLD
    /\ ~gap.cleaned
\* C9 (as claimed): once a gap of 1500 ms has followed an accepted frame, the
\* debounce callback has fired exactly once for that gap.
C9_ExactlyOneFiringPerGap == GapElapsed => gap.fires = 1
\* C9 (amended): at most one firing per gap; exactly one when the last accepted
\* frame arrived while the pipeline was not busy (it armed the timer).
C9_OneFiringPerArmedGap ==
    /\ gap.fires <= 1
    /\ (GapElapsed /\ gap.armed) => gap.fires = 1
C9_Witness == GapElapsed /\ gap.armed /\ gap.fires = 1 /\ used.frames >= 2

\* What an accepted frame of speaker p does to p's session and to the timer
SessionOf(us, p) == IF p \in DOMAIN us THEN us[p] ELSE NewSession(0)
FrameAppended(p) ==
    LET old == SessionOf(userStates, p)
        new == userStates'[p]
    IN  /\ Len(new.buffers) = Len(old.buffers) + 1
        /\ SubSeq(new.buffers, 1, Len(old.buffers)) = old.buffers
        /\ isLoudEnough(new.buffers[Len(new.buffers)])
        /\ new.totalLength = old.totalLength + ByteLength(new.buffers[Len(new.buffers)])
TimerRearmed(p) ==
    /\ timers' = {[deadline |-> now + DEBOUNCE_TRANSCRIPTION_THRESHOLD, player |-> p]}
    /\ transcriptionTimeout' \in timers'

\* C10 (as claimed): every accepted frame is appended to its speaker's
\* session, stamps the session, cancels the outstanding timer and starts a new
\* 1500 ms timer.
C10_EveryAcceptedFrameRearms ==
    [][ ev'.type = "frame"
        => (FrameAppended(ev'.player) /\ userStates'[ev'.player].lastActive = now
            /\ TimerRearmed(ev'.player)) ]_allVars
\* C10 (amended): every accepted frame stamps its session; when the pipeline
\* is not busy it is appended and re-arms the timer; when busy the speaker's
\* buffered audio is dropped and the timer is left as it is.
C10_AcceptedFrameRearmsUnlessBusy ==
    [][ ev'.type = "frame"
        => /\ userStates'[ev'.player].lastActive = now
           /\ IF processingVoice
              THEN /\ userStates'[ev'.player].buffers = << >>
                   /\ userStates'[ev'.player].totalLength = 0
                   /\ timers' = timers
                   /\ transcriptionTimeout' = transcriptionTimeout
              ELSE /\ FrameAppended(ev'.player)
                   /\ TimerRearmed(ev'.player) ]_allVars
C10_Witness ==
    /\ ev.type = "frame" /\ ~ev.flag /\ now > 0
    /\ Len(userStates[ev.player].buffers) = 2
    /\ userStates[ev.player].lastActive = now
    /\ timers = {[deadline |-> now + DEBOUNCE_TRANSCRIPTION_THRESHOLD, player |-> ev.player]}

\* C11: as long as every frame received so far, from any speaker, has a mean
\* absolute amplitude of at most 1000, no session holds a chunk or a non-zero
\* length, no debounce timer is armed or has fired, and no speech-to-text call
\* is in progress.
C11_QuietFramesAccumulateNothing ==
    ~used.loud =>
        /\ \A q \in DOMAIN userStates :
              userStates[q].buffers = << >> /\ userStates[q].totalLength = 0
        /\ timers = {}
        /\ transcriptionTimeout = NoHandle
        /\ gap.fires = 0
        /\ turns = << >>
C11_Witness ==
    /\ ~used.loud
    /\ used.frames = 2
    /\ DOMAIN userStates = Speakers
    /\ ev.type = "quiet"

\* A debounce callback has just started with the lock free
FiredWithLockFree == ev'.type \in {"fire", "endNoAudio"} /\ ~LockIsActive(lockCount)
\* C12 (as claimed): a firing with the lock free starts exactly one
\* speech-to-text call, for the speaker of the most recent accepted frame, on
\* the concatenation in arrival order of that speaker's buffered chunks.
C12_FiringTranscribesLastSpeaker ==
    [][ FiredWithLockFree
        => /\ Len(turns') = Len(turns) + 1
           /\ ev'.player = gap.player
           /\ turns'[Len(turns')].player = ev'.player
           /\ turns'[Len(turns')].audio = Concat(SessionOf(userStates, ev'.player).buffers)
      ]_allVars
\* C12 (amended): a firing with the lock free is for the speaker whose frame
\* armed the timer; it starts one speech-to-text call when that speaker has
\* buffered chunks and none otherwise; the payload is the concatenation in
\* arrival order of that speaker's chunks alone; when a turn ends every
\* session, the other speakers' included, is cleared.
C12_FiringTranscribesArmingSpeaker ==
    [][ /\ FiredWithLockFree
           => /\ ev'.player = transcriptionTimeout.player
              /\ IF SessionOf(userStates, ev'.player).buffers = << >>
                 THEN turns' = turns
                 ELSE /\ turns' = Append(turns, turns'[Len(turns')])
                      /\ turns'[Len(turns')].player = ev'.player
                      /\ turns'[Len(turns')].audio =
                            Concat(SessionOf(userStates, ev'.player).buffers)
        /\ ev'.type \in EndTypes => AllClean(userStates')
      ]_allVars
C12_Witness ==
    /\ ev.type = "fire" /\ ~ev.flag
    /\ turns = << [player |-> "B", pc |-> "stt", audio |-> LoudFrame2, text |-> << >>] >>
    /\ "A" \in DOMAIN userStates
    /\ userStates["A"].buffers = << LoudFrame1 >>

\* The speech-to-text call of a turn has just returned (not thrown) with an
\* empty text or with the blank-audio sentinel
SttReturnedTypes == {"message", "endNoText", "endIgnored", "endWorldError"}
SttReturnedNothing ==
    ev'.type \in SttReturnedTypes /\ ev'.text \in {TextEmpty, TextBlank}
\* C13: when speech-to-text returns an empty text or the blank-audio
\* sentinel, the turn ends there: no transcript is kept, no message is handed
\* to handleMessage, no reply event is emitted, the lock is only released
\* (never entered for a reply), and every session is cleared.
C13_BlankResultEndsTurnSilently ==
    [][ SttReturnedNothing
        => /\ ev'.type = "endNoText"
           /\ \E i \in 1..Len(turns) : turns[i].pc = "stt" /\ turns' = RemoveAt(turns, i)
           /\ replies' = replies
           /\ lockCount' = lockCount - 1
           /\ AllClean(userStates')
      ]_allVars
C13_Witness ==
    /\ ev.type = "endNoText" /\ ev.text = TextBlank /\ ev.flag
    /\ AllClean(userStates) /\ lockCount = 0 /\ replies = << >>

\* C14: a speech-to-text failure ends the turn normally: the turn is over,
\* every session is cleared, processingVoice is false, the turn's acquisition
\* is released and nothing else is acquired or emitted; after a failure an
\* accepted frame still arms the timer, and its firing still transcribes.
C14_SttFailureIsContained ==
    [][ /\ ev'.type = "endSttError"
           => /\ \E i \in 1..Len(turns) : turns[i].pc = "stt" /\ turns' = RemoveAt(turns, i)
              /\ AllClean(userStates')
              /\ ~processingVoice'
              /\ lockCount' = lockCount - 1
              /\ replies' = replies
        /\ (used.failed /\ ev'.type = "frame" /\ ~processingVoice)
           => FrameAppended(ev'.player) /\ TimerRearmed(ev'.player)
        /\ (used.failed /\ ev'.type = "fire")
           => /\ turns' = Append(turns, turns'[Len(turns')])
              /\ turns'[Len(turns')].pc = "stt"
              /\ turns'[Len(turns')].audio = Concat(SessionOf(userStates, ev'.player).buffers)
      ]_allVars
C14_Witness ==
    /\ used.failed
    /\ ev.type = "fire"
    /\ Len(turns) = 1 /\ turns[1].pc = "stt" /\ turns[1].audio = LoudFrame2
    /\ lockCount = 1

\* C15: the speaking flag is true exactly while a playback started by
\* playAudio is publishing: true from its start until it settles, false once
\* it has completed or failed.
C15_SpeakingExactlyWhilePublishing == speaking <=> Playbacks > 0

\* The content frames a call has handed to the audio source so far, in order
ContentFrames(c) == SelectSeq(c.sent, LAMBDA fr : fr.kind = "content")
\* Call k hands a content frame to the audio source in this step
ContentHandedOver(k) ==
    /\ Len(streams'[k].sent) = Len(streams[k].sent) + 1
    /\ streams'[k].sent[Len(streams'[k].sent)].kind = "content"
\* C16: content frame i of a call is handed over at a time >= T0 + i * 100 ms,
\* T0 being the call's stream start; the frame handed over is always the next
\* one (none is skipped); and a call goes to sleep at a loop head only when it
\* is ahead of schedule, so a call that is behind sends at once.
C16_FramesPacedNeverEarly ==
    [][ \A k \in 1..MaxStreams :
          /\ ContentHandedOver(k)
             => LET fr == streams'[k].sent[Len(streams'[k].sent)]
                    index == Len(ContentFrames(streams[k]))
                IN  /\ fr.lo = index * samplesPerFrame
                    /\ now >= streams'[k].start + index * frameDurationMs
          /\ (streams[k].pc \in {"silence", "capture"} /\ streams'[k].pc = "sleep")
             => now < streams'[k].start
                        + Len(ContentFrames(streams'[k])) * frameDurationMs
      ]_allVars
C16_Witness ==
    \E k \in 1..MaxStreams :
        /\ streams[k].pc = "done"
        /\ Len(ContentFrames(streams[k])) = 3
        /\ now = streams[k].start + 2 * frameDurationMs

Ceil(n, d) == (n + d - 1) \div d
\* C17: a call that has streamed its N samples has sent ceil(N / 4800)
\* content frames; at any time the content frames sent so far are non-empty,
\* start at sample 0 and follow one another without gap or overlap; every
\* frame but the last has 4800 samples and the last one ends at sample N.
C17_FramesTileTheSamples ==
    \A k \in 1..MaxStreams :
        LET c == streams[k]
            fs == ContentFrames(c)
        IN  /\ \A j \in 1..Len(fs) :
                  /\ fs[j].lo = (j - 1) * samplesPerFrame
                  /\ fs[j].lo < fs[j].hi
                  /\ fs[j].hi = IF j * samplesPerFrame < c.n THEN j * samplesPerFrame ELSE c.n
            /\ (c.pc = "done" /\ c.n > 0)
                  => /\ Len(fs) = Ceil(c.n, samplesPerFrame)
                     /\ fs[Len(fs)].hi = c.n
C17_Witness ==
    \E k \in 1..MaxStreams :
        /\ streams[k].pc = "done"
        /\ streams[k].n = 2 * samplesPerFrame + 1
        /\ Len(ContentFrames(streams[k])) = 3
        /\ FrameLength(streams[k].sent[Len(streams[k].sent)]) = 1

\* Call k has reached streaming: it has got past creating/publishing the track
Streaming(c) == c.pc \in {"silence", "sleep", "capture"} \/ (c.pc = "done" /\ c.n > 0)
\* C18: a call that has reached streaming has captured exactly one silence
\* frame, of 4800 zero samples, and it is the first frame the call captured.
C18_OneSilenceFrameFirst ==
    \A k \in 1..MaxStreams :
        LET c == streams[k]
        IN  /\ Streaming(c) => Len(c.sent) >= 1
            /\ Len(c.sent) >= 1
                  => /\ c.sent[1].kind = "silence"
                     /\ FrameLength(c.sent[1]) = samplesPerFrame
                     /\ \A j \in 2..Len(c.sent) : c.sent[j].kind = "content"
C18_Witness ==
    \E k \in 1..MaxStreams :
        /\ streams[k].pc = "capture"
        /\ Len(streams[k].sent) = 2
        /\ streams[k].sent[2].kind = "content"

\* C19: the track is never published twice, and it has been published once
\* whenever some call has gone on to capture frames.
C19_TrackPublishedExactlyOnce ==
    /\ published.calls <= 1
    /\ published.done <= 1
    /\ (\E k \in 1..MaxStreams : streams[k].sent # << >>) => published.done = 1

\* C20: every buffer is classified, and as wave exactly when its first four
\* bytes are the ASCII tag RIFF, else as mp3 exactly when byte 0 is 0xFF and
\* the top three bits of byte 1 are set, else (short buffers included) as raw
\* PCM.
C20_FormatDecidedByLeadingBytes ==
    LET buffer == detected.buffer
        tagged == Len(buffer) >= 4 /\ SubSeq(buffer, 1, 4) = RIFF
        synced == Len(buffer) >= 2 /\ buffer[1] = 255 /\ buffer[2] \in 224..255
    IN  detected.format # "none" =>
            detected.format = IF tagged THEN "wav" ELSE IF synced THEN "mp3" ELSE "pcm"

\* C21: a buffer classified as raw PCM comes back from convertToPcm as 16-bit
\* samples whose bytes are exactly the bytes of the input, and ffmpeg is not
\* started for it.
C21_RawPcmPassesThroughUnchanged ==
    detected.format = "pcm" =>
        /\ detected.out.kind = "samples"
        /\ BytesOf(detected.out.samples) = detected.buffer

\* convertToPcm of call k failed: the call is over without a decoded sample
ConversionFailed(c) == c.pc = "failed" /\ c.n = 0
\* C22: when convertToPcm fails (ffmpeg cannot be spawned or exits non-zero)
\* the publishAudioStream call is over having captured no frame, silence
\* included, and having created or published no track; and when the playAudio
\* that awaited it ends, processingVoice and the speaking state are both false.
C22_FailedConversionPlaysNothing ==
    [][ \A k \in 1..MaxStreams :
          /\ (streams[k].pc = "convert" /\ ConversionFailed(streams'[k]))
                => /\ streams'[k].sent = << >>
                   /\ audioSource' = audioSource
                   /\ published' = published
          /\ (k \in plays /\ k \notin plays' /\ ConversionFailed(streams[k]))
                => /\ streams'[k].sent = << >>
                   /\ ~processingVoice'
                   /\ ~speaking'
      ]_allVars
C22_Witness ==
    /\ ev.type = "played" /\ ev.flag
    /\ ConversionFailed(streams[1]) /\ streams[1].sent = << >>
    /\ plays = {2} /\ Len(streams[2].sent) = 2
    /\ ~processingVoice /\ ~speaking

\* C23: in every state and for every session, totalLength is the sum of the
\* byte lengths of the buffered chunks, and it is not negative.
C23_TotalLengthIsSumOfChunks ==
    \A q \in DOMAIN userStates :
        /\ userStates[q].totalLength = SumBytes(userStates[q].buffers)
        /\ userStates[q].totalLength >= 0
C23_Witness ==
    /\ ev.type = "fire" /\ ev.player = "A"
    /\ userStates["A"].buffers = << >> /\ userStates["A"].totalLength = 0
    /\ "B" \in DOMAIN userStates
    /\ userStates["B"].buffers = << LoudFrame2 >> /\ userStates["B"].totalLength = 4

\* C24: a call that has resolved returns, for a Buffer, that buffer; for a web
\* stream or a Readable, the concatenation in delivery order of every chunk
\* delivered up to the stream's end, and only once the stream has ended. A
\* stream that fails rejects the call, and so does any other kind of response;
\* a rejected call returns nothing.
C24_WholeAudioOrError ==
    /\ drained.pc = "resolved" =>
          /\ drained.kind \in {"buffer", "web", "node"}
          /\ drained.kind = "buffer" => drained.result = drained.bytes
          /\ drained.kind \in {"web", "node"} =>
                drained.ended /\ drained.result = Concat(drained.delivered)
    /\ drained.errored => drained.pc = "rejected"
    /\ (drained.pc # "idle" /\ drained.kind = "other") => drained.pc = "rejected"
    /\ drained.pc = "rejected" => drained.result = << >>
    /\ drained.pc \in {"reading", "listening"} => drained.result = << >>
C24_Witness ==
    /\ drained.pc = "resolved" /\ drained.kind = "node"
    /\ drained.delivered = << << 2, 3 >>, << >>, << 1 >> >>
    /\ drained.result = << 2, 3, 1 >>

\* C25: a tick of the behaviour loop that finds the activity lock active skips:
\* the loop stays asleep and the tick composes nothing, starts no action and
\* no playback and changes nothing of the voice pipeline; and the loop leaves
\* its sleep only in a tick that finds the lock free, never because the lock
\* is released.
C25_LockedTickIsSkipped ==
    [][ /\ (used'.ticks = used.ticks + 1 /\ lockCount > 0)
           => /\ bmPc' = "sleep"
              /\ UNCHANGED << userStates, processingVoice, transcriptionTimeout, timers,
                              lockCount, turns, replies, bmCb, speaking >>
        /\ ev'.type = "skip" => (used'.ticks = used.ticks + 1 /\ lockCount > 0)
        /\ (bmPc = "sleep" /\ bmPc' # "sleep")
           => /\ bmPc' = "compose"
              /\ used'.ticks = used.ticks + 1
              /\ lockCount = 0
      ]_allVars
C25_Witness ==
    /\ ev.type = "skip"
    /\ bmPc = "sleep" /\ bmCb = "idle"
    /\ Len(turns) = 1 /\ turns[1].pc = "connect"
    /\ lockCount = 1

\* C26: the delay the loop sleeps after an execution is 15 to 30 s when the
\* execution reported other players present, and 60 to 120 s when it reported
\* none, which is the case whenever it was skipped for a missing service, world
\* or player, found the agent alone, or threw; and the next execution does not
\* start before that delay has passed.
C26_DelayFollowsReport ==
    \A i \in 1..Len(loop.all) :
        LET l == loop.all[i]
        IN  /\ l.pc \in {"wait", "stopped"} =>
                  /\ l.hasOtherPlayers => l.delay \in 15000..30000
                  /\ ~l.hasOtherPlayers => l.delay \in 60000..120000
                  /\ l.ending \in {"noService", "noWorld", "noPlayer", "alone", "threw"}
                        => l.delay \in 60000..120000
                  /\ l.ending \in {"locked", "done"} => l.delay \in 15000..30000
            /\ (l.pc = "run" /\ l.runs > 1) =>
                  /\ l.started - l.ended >= l.delay
                  /\ l.hasOtherPlayers => l.started - l.ended >= 15000
                  /\ ~l.hasOtherPlayers => l.started - l.ended >= 60000
C26_Witness ==
    /\ loop.all[1].pc = "run" /\ loop.all[1].runs = 3
    /\ loop.all[1].ending = "threw"
    /\ loop.all[1].delay = 119940
    /\ loop.all[1].started = loop.all[1].ended + loop.all[1].delay

\* The place of a call in the callback's sequence of calls (0: not made)
CallIndex(name) ==
    IF \E i \in 1..Len(callback.calls) : callback.calls[i] = name
    THEN CHOOSE i \in 1..Len(callback.calls) : callback.calls[i] = name
    ELSE 0
\* C27: in the behaviour callback OpenAI speech is requested only after
\* ElevenLabs came back without audio; playAudio is called only with a buffer
\* from one of the two; the chat message is sent before any speech is
\* requested; so whenever synthesis or playback has failed, the message has
\* been sent.
C27_SpeechNeverBlocksText ==
    /\ CallIndex("generateOpenAITTS") > 0 => callback.eleven = "null"
    /\ CallIndex("playAudio") > 0
          => (callback.eleven = "buffer" \/ callback.openai = "buffer")
    /\ CallIndex("generateElevenLabsTTS") > 0
          => /\ CallIndex("sendMessage") > 0
             /\ CallIndex("sendMessage") < CallIndex("generateElevenLabsTTS")
    /\ CallIndex("generateOpenAITTS") > 0
          => CallIndex("generateElevenLabsTTS") < CallIndex("generateOpenAITTS")
    /\ CallIndex("playAudio") > 0
          => CallIndex("generateElevenLabsTTS") < CallIndex("playAudio")
    /\ (callback.eleven \in {"null", "threw"} \/ callback.openai \in {"null", "threw"}
           \/ callback.play = "failed")
          => CallIndex("sendMessage") > 0
C27_Witness ==
    /\ callback.pc = "returned"
    /\ callback.calls = << "createMemory", "playEmote", "sendMessage",
                           "generateElevenLabsTTS", "generateOpenAITTS", "playAudio" >>
    /\ callback.eleven = "null" /\ callback.openai = "buffer" /\ callback.play = "failed"

\* C28: at most one debounce timer is pending at any time; a frame that arms
\* the timer leaves its own timer as the only one pending; the timer whose
\* callback runs is the one armed last (never a cancelled one), and it runs
\* for the speaker of the frame that armed it.
C28_OneTimerLastArmerWins ==
    [][ /\ Cardinality(timers') <= 1
        /\ (ev'.type = "frame" /\ ~processingVoice)
           => /\ timers' = {transcriptionTimeout'}
              /\ transcriptionTimeout'.player = ev'.player
              /\ transcriptionTimeout'.deadline = now + DEBOUNCE_TRANSCRIPTION_THRESHOLD
        /\ ev'.type \in {"fire", "endNoAudio"}
           => /\ timers = {transcriptionTimeout}
              /\ timers' = {}
              /\ ev'.player = transcriptionTimeout.player
              /\ gap.armed => ev'.player = gap.player
      ]_allVars
C28_Witness ==
    /\ ev.type = "fire" /\ ev.player = "B"
    /\ used.frames = 2 /\ gap.fires = 1 /\ timers = {}
    /\ "A" \in DOMAIN userStates /\ Len(userStates["A"].buffers) = 1
    /\ now = gap.last + DEBOUNCE_TRANSCRIPTION_THRESHOLD
    /\ userStates["A"].lastActive < gap.last

\* Everything of the pipeline but the sessions
PipelineButSessions ==
    << timers, transcriptionTimeout, processingVoice, isStarted, lockCount, turns, replies,
       speaking >>
\* C29: a well-formed frame whose mean amplitude does not exceed the threshold
\* changes no existing session, no timer, not the busy flag; all it does is
\* create an empty session, stamped with the time, for a speaker not seen
\* before.
C29_QuietFrameChangesNothing ==
    [][ (ev'.type \in {"quiet", "frame"} /\ ~ev'.loud)
        => /\ ev'.type = "quiet"
           /\ UNCHANGED PipelineButSessions
           /\ DOMAIN userStates' = DOMAIN userStates \cup {ev'.player}
           /\ \A q \in DOMAIN userStates : userStates'[q] = userStates[q]
           /\ ev'.player \notin DOMAIN userStates
                 => userStates'[ev'.player] =
                       [buffers |-> << >>, totalLength |-> 0, lastActive |-> now,
                        transcriptionText |-> << >>]
      ]_allVars
C29_Witness ==
    /\ ev.type = "quiet" /\ ev.player = "B"
    /\ DOMAIN userStates = {"A", "B"}
    /\ userStates["A"].buffers = << LoudFrame1 >>
    /\ userStates["B"].buffers = << >>
    /\ timers = {[deadline |-> DEBOUNCE_TRANSCRIPTION_THRESHOLD, player |-> "A"]}

\* C30: a frame of odd byte length is rejected and changes nothing: no
\* session is created or changed, no chunk appended, the timer left alone.
C30_MalformedFrameChangesNothing ==
    [][ ev'.type = "malformed"
        => /\ UNCHANGED PipelineButSessions
           /\ userStates' = userStates
      ]_allVars

\* Call k of playAudio is made in this step
PlayAudioCalled(k) == streams[k].pc = "idle" /\ streams'[k].pc # "idle"
\* C31: a playAudio call that finds the service, the world or the transport
\* missing changes nothing: the busy flag was false and stays false, the
\* speaking state is not touched, no publishAudioStream call is made and
\* nothing is created, published or captured; and the next call after it that
\* finds the transport sets the flags and calls publishAudioStream.
C31_UnavailableTransportSkipsCleanly ==
    [][ \A k \in 1..MaxStreams :
          /\ (PlayAudioCalled(k) /\ ev'.type = "playUnavailable")
             => /\ ~processingVoice /\ ~processingVoice'
                /\ UNCHANGED << speaking, plays, room, audioSource, published >>
                /\ streams'[k].pc = "skipped"
                /\ \A j \in 1..MaxStreams : streams'[j].sent = streams[j].sent
                /\ \A j \in 1..MaxStreams \ {k} : streams'[j] = streams[j]
          /\ (k > 1 /\ PlayAudioCalled(k) /\ ev'.type = "playAudio"
                 /\ ev.type = "playUnavailable")
             => /\ streams[k - 1].pc = "skipped"
                /\ processingVoice' /\ speaking'
                /\ plays' = plays \cup {k}
                /\ streams'[k].pc = "convert"
      ]_allVars
C31_Witness ==
    /\ streams[1].pc = "skipped" /\ streams[1].sent = << >>
    /\ streams[2].pc = "done" /\ Len(streams[2].sent) = 3
    /\ published.done = 1
    /\ ev.type = "played" /\ ~ev.flag
    /\ ~processingVoice /\ ~speaking

\* The runLoop invocations that are executing or sleeping
LiveLoops == {i \in 1..Len(loop.all) : loop.all[i].pc # "stopped"}
\* C32: for every sequence of start() and stop() calls at most one behaviour
\* loop is executing or sleeping: start() while running starts nothing, and a
\* loop started before a stop() does not run on beside the loop of a later
\* start().
C32_AtMostOneLoop == Cardinality(LiveLoops) <= 1

\* The entities of type player other than the agent's own
OthersIn(items) == {id \in DOMAIN items : id # Self /\ items[id] = "player"}
\* C33: an execution that gets to the player check finds the agent alone
\* exactly when no entity other than its own has the type player; it then
\* returns false and does nothing: the loop stays asleep (no model call, no
\* action, no message, no playback) and nothing of the voice pipeline or of
\* the lock changes; and a behaviour is only ever begun by an execution that
\* saw another player.
C33_AloneDoesNothing ==
    [][ /\ (used'.ticks = used.ticks + 1 /\ ev'.type # "unready")
           => /\ ev'.type = "alone" <=> OthersIn(ev'.items) = {}
              /\ ev'.type = "alone"
                    => /\ ~ev'.flag
                       /\ bmPc' = "sleep"
                       /\ UNCHANGED << userStates, processingVoice, transcriptionTimeout,
                                       timers, lockCount, turns, replies, bmCb, speaking >>
        /\ (bmPc = "sleep" /\ bmPc' # "sleep")
           => /\ used'.ticks = used.ticks + 1
              /\ OthersIn(ev'.items) # {}
      ]_allVars
C33_Witness ==
    /\ ev.type = "alone" /\ ~ev.flag
    /\ ev.items = (Self :> "player") @@ ("p1" :> "app") @@ ("app1" :> "none")
    /\ bmPc = "sleep" /\ bmCb = "idle"
    /\ lockCount = 1 /\ Len(turns) = 1

\* C34: at every handler boundary every session's transcript is empty: what a
\* turn appends it takes out again before its next await. The text a turn
\* hands to handleMessage is therefore the valid text its own speech-to-text
\* call returned, and the text of a reply event is the text of the turn that
\* emitted it, for that turn's speaker.
C34_TranscriptNeverOutlivesItsTurn ==
    [][ /\ \A q \in DOMAIN userStates : userStates[q].transcriptionText = << >>
        /\ \A q \in DOMAIN userStates' : userStates'[q].transcriptionText = << >>
        /\ ev'.type = "message"
           => \E i \in 1..Len(turns) :
                 /\ turns[i].pc = "stt" /\ turns'[i].pc = "connect"
                 /\ turns'[i].player = turns[i].player
                 /\ turns'[i].text = ev'.text
                 /\ isValidTranscription(ev'.text)
        /\ ev'.type = "endReply"
           => \E i \in 1..Len(turns) :
                 /\ turns[i].pc = "connect"
                 /\ replies'[Len(replies')].text = turns[i].text
                 /\ replies'[Len(replies')].player = turns[i].player
      ]_allVars
C34_Witness ==
    /\ ev.type = "message" /\ ev.text = TextHello
    /\ Len(turns) = 2
    /\ turns[1].player = "A" /\ turns[1].pc = "stt"
    /\ turns[2].player = "B" /\ turns[2].pc = "connect" /\ turns[2].text = TextHello
    /\ DOMAIN userStates = Speakers

\* C35: a loud frame of speaker S that arrives while processingVoice is true
\* leaves S's session with no chunk and length 0, whatever S had buffered
\* before; the sessions of the other speakers, the pending timer, its handle
\* and the busy flag are unchanged, and no turn begins.
C35_BusyFrameDropsSpeakersAudio ==
    [][ (ev'.type = "frame" /\ processingVoice)
        => /\ userStates'[ev'.player].buffers = << >>
           /\ userStates'[ev'.player].totalLength = 0
           /\ DOMAIN userStates' = DOMAIN userStates \cup {ev'.player}
           /\ \A q \in DOMAIN userStates \ {ev'.player} : userStates'[q] = userStates[q]
           /\ timers' = timers
           /\ transcriptionTimeout' = transcriptionTimeout
           /\ processingVoice'
           /\ turns' = turns
      ]_allVars
C35_Witness ==
    /\ ev.type = "frame" /\ ev.flag /\ ev.player = "A"
    /\ processingVoice /\ Playbacks = 1 /\ turns = << >>
    /\ used.frames = 2 /\ used.cleanups = 0
    /\ DOMAIN userStates = {"A"}
    /\ userStates["A"].buffers = << >> /\ userStates["A"].totalLength = 0
    /\ timers = {[deadline |-> DEBOUNCE_TRANSCRIPTION_THRESHOLD, player |-> "A"]}

\* Shorter than 3 characters, or nothing but spaces
TooShortOrBlank(text) == Len(text) < 3 \/ \A i \in 1..Len(text) : text[i] = " "
\* A speech-to-text call has returned a valid text, which is finalized
Finalizing == ev'.type \in SttReturnedTypes /\ isValidTranscription(ev'.text)
\* The turn that was awaiting ensureConnection is over
ConnectSettled == \E i \in 1..Len(turns) : turns[i].pc = "connect" /\ turns' = RemoveAt(turns, i)
\* No connection is ensured, no event emitted, enter() not called: the turn
\* ends releasing its scoped acquisition only
NoReply ==
    /\ Len(turns') = Len(turns) - 1
    /\ replies' = replies
    /\ lockCount' = lockCount - 1
\* C36 (as claimed): a finalized transcript shorter than 3 characters or blank
\* produces no reply (no connection ensured, no event, no enter()); any other
\* finalized transcript produces exactly one voice-message event preceded by
\* exactly one enter().
C36_ReplyExactlyWhenLongEnough ==
    [][ /\ Finalizing
           => IF TooShortOrBlank(ev'.text)
              THEN ev'.type = "endIgnored" /\ NoReply
              ELSE ev'.type = "message"
        /\ ConnectSettled
           => /\ ev'.type = "endReply"
              /\ Len(replies') = Len(replies) + 1
              /\ lockCount' = lockCount
      ]_allVars
\* C36 (amended): a finalized transcript shorter than 3 characters or blank
\* produces no reply; any other goes on to ensure the connection unless the
\* world lookup fails, and then produces no reply either. When the connection
\* is ensured enter() is called once and the event is emitted once, carrying
\* the transcript; when ensureConnection fails there is no enter() and no
\* event; when emitting throws, enter() has been called and no event is
\* delivered.
C36_ReplyOnlyWhenLongEnough ==
    [][ /\ Finalizing
           => IF TooShortOrBlank(ev'.text)
              THEN ev'.type = "endIgnored" /\ NoReply
              ELSE /\ ev'.type \in {"message", "endWorldError"}
                   /\ ev'.type = "endWorldError" => NoReply
                   /\ ev'.type = "message"
                         => /\ replies' = replies /\ lockCount' = lockCount
                            /\ \E i \in 1..Len(turns) : turns'[i].pc = "connect"
        /\ ConnectSettled
           => /\ ev'.type \in {"endReply", "endConnectError", "endEmitError"}
              /\ ev'.type = "endReply"
                    => /\ \E i \in 1..Len(turns) :
                             /\ turns[i].pc = "connect"
                             /\ replies' = Append(replies,
                                   [player |-> turns[i].player, text |-> turns[i].text,
                                    pc |-> "pending"])
                             /\ ~TooShortOrBlank(turns[i].text)
                       /\ lockCount' = lockCount
              /\ ev'.type = "endConnectError" => NoReply
              /\ ev'.type = "endEmitError" => replies' = replies /\ lockCount' = lockCount
        /\ Len(replies') > Len(replies) => ev'.type = "endReply"
      ]_allVars
C36_Witness ==
    /\ ev.type = "endReply"
    /\ replies = << [player |-> "A", text |-> TextPadded, pc |-> "pending"] >>
    /\ lockCount = 1 /\ turns = << >>

\* No debounce turn is executing and no playback begun by playAudio is in flight
NothingInFlight == turns = << >> /\ Playbacks = 0 /\ plays = {}
ChunksOf(us, p) == IF p \in DOMAIN us THEN Len(us[p].buffers) ELSE 0

\* C38: whatever start() and cleanup() calls came before, one inbound audio
\* frame adds at most one chunk to its speaker's session.
C38_FrameAppendedAtMostOnce ==
    [][used'.frames # used.frames =>
           \A p \in Speakers : ChunksOf(userStates', p) <= ChunksOf(userStates, p) + 1]_allVars

\* cleanup() has run and no loud frame has arrived since
CleanedAndSilent == gap.cleaned
\* no audio is held in any session
NoAudioHeld == \A p \in DOMAIN userStates :
    userStates[p].buffers = << >> /\ userStates[p].totalLength = 0
\* the step starts a speech-to-text call
SttStarted == Len(turns') > Len(turns)

\* C39: cleanup() leaves no pending debounce timer, an empty speaker map and
\* a false busy flag; from then until a new loud frame arrives no timer is
\* pending, no audio is held and no speech-to-text call is started, so the
\* audio buffered before the cleanup is never transcribed.
C39_CleanupDropsPendingAudio ==
    [][/\ used'.cleanups # used.cleanups =>
              timers' = {} /\ userStates' = EmptyMap /\ ~processingVoice'
       /\ CleanedAndSilent' => timers' = {} /\ NoAudioHeld'
       /\ CleanedAndSilent => ~SttStarted]_allVars
C39_Witness ==
    /\ CleanedAndSilent
    /\ ev.type = "none"
    /\ now > gap.last + DEBOUNCE_TRANSCRIPTION_THRESHOLD
    /\ gap.armed
    /\ gap.fires = 0

\* C40: a trigger handler is invoked only while no interaction is current,
\* and the cancel handler of the current interaction is invoked at most once.
C40_OneInteractionAtATime ==
    [][/\ agentActions'.triggered # agentActions.triggered =>
              agentActions.currentNode = NoNode
       /\ agentActions'.cancels <= 1]_allVars

====
